---- MODULE Spec2Model ----
(***************************************************************************)
(* OrdiBird abuse-mitigation engine.                                       *)
(*                                                                         *)
(*   Spec      BotBlockingService (services/BotBlockingService.js) behind  *)
(*             botBlockingMiddleware: per-IP sliding window, bot/user-agent*)
(*             heuristics, timed blocks with lazy expiry, cleanup sweep.   *)
(*   SpecLive  Spec with the cleanup interval firing and time passing     *)
(*             (weak fairness), for what the sweeps achieve in the end.    *)
(*   SpecMint  RateLimitService global minute-bucketed mint limiter and    *)
(*             the POST /api/claim/token handler that consults it.         *)
(*   SpecKey   the limiter's minute key at the turn of the hour, the day,  *)
(*             the month and the year.                                     *)
(*   SpecClaims  RateLimitService claim records, addresses in any case.    *)
(*   SpecToken TokenService (issuer wallet) behind initializeServices():   *)
(*             initialization, blocklist, transaction queue, retries.      *)
(*   SpecTokenLive  SpecToken with the SDK calls settling and the re-poll  *)
(*             timers firing (weak fairness).                              *)
(*                                                                         *)
(* Time is an integer number of clock units; every comparison of the code  *)
(* (<=, >=, >) is kept as written.                                         *)
(***************************************************************************)
EXTENDS Integers, Sequences, FiniteSets, TLC

VARIABLES
    now,               \* Date.now() of the BotBlockingService process
    ipRequestTracker,  \* Map: IP -> { requests, blocked, blockedUntil, blockReason, blockedAt }
    suspiciousIPs,     \* Set of flagged IPs
    blockedIPs,        \* Set of blocked IPs
    burst,             \* history: per IP, the run of well-formed requests begun with no record
    admitted,          \* history: per IP, the times of its admitted requests no older than one window
    last,              \* the most recent operation and what it returned
    clock,             \* Date of the claim-endpoint process
    globalMintTracker, \* Map: minute key -> { count, timestamp }
    claims,            \* Map: normalized address -> { address, lastClaim, claimCount, firstClaim }
                       \* (the entries of the addresses the modelled requests use)
    handlers,          \* in-flight POST /api/claim/token handlers: position and locals
    tokenServiceImpl,  \* which services/TokenService.js the build loads
    started,           \* history: number of claim requests received
    mintsThisMinute,   \* history: recordGlobalMint calls in the current calendar minute
    succeededThisMinute, \* history: claims recorded in this minute whose mint and transfer succeeded
    claimLog,          \* history: the recordClaim calls made on the service, <<address, time>> each
    isInitialized,     \* api/server.js: let isInitialized
    tokenService,      \* TokenService: isInitialized, tokenId, blockedAddresses, transactionQueue,
                       \* isProcessingTransaction
    claimCalls,        \* the requests that reach initializeServices() and tokenService.claimToken
    timers,            \* pending setTimeout(() => this.processQueue(), 100) callbacks
    history            \* history of the running transactions: executions and SDK calls made

botVars == <<now, ipRequestTracker, suspiciousIPs, blockedIPs, burst, admitted>>
mintVars == <<clock, globalMintTracker, claims, handlers, tokenServiceImpl,
              started, mintsThisMinute, succeededThisMinute>>
tokenVars == <<claimLog, isInitialized, tokenService, claimCalls, timers, history>>
vars == <<now, ipRequestTracker, suspiciousIPs, blockedIPs, burst, admitted, last,
          clock, globalMintTracker, claims, handlers, tokenServiceImpl,
          started, mintsThisMinute, succeededThisMinute,
          claimLog, isInitialized, tokenService, claimCalls, timers, history>>

-----------------------------------------------------------------------------
(* Configuration of the modelled deployment.  BOT_BLOCKING_MAX_REQUESTS,    *)
(* BOT_BLOCKING_TIME_WINDOW_SECONDS and BOT_BLOCKING_DURATION_HOURS are     *)
(* read from the environment (BotBlockingService constructor, lines 9-11);  *)
(* the model runs one small configuration of them on a coarse clock:        *)
(* MS_PER_SECOND clock units make one second (1000 in the code), and the    *)
(* block duration is given in seconds of that clock.                        *)

MS_PER_SECOND == 1
MAX_REQUESTS_PER_WINDOW == 2
TIME_WINDOW_SECONDS == 1
BLOCK_DURATION_SECONDS == 11
MaxTime == 13

TIME_WINDOW_MS == TIME_WINDOW_SECONDS * MS_PER_SECOND
BLOCK_DURATION_MS == BLOCK_DURATION_SECONDS * MS_PER_SECOND

\* recordRequest keeps 2 x window, cleanup keeps 10 x window
RECORD_BUFFER_FACTOR == 2
CLEANUP_KEEP_FACTOR == 10

IPs == {"203.0.113.7"}

\* JavaScript null / undefined for an optional field, and a present value
None == <<>>
Some(v) == <<v>>
Val(o) == o[1]

-----------------------------------------------------------------------------
(* String primitives of JavaScript used by the classifier.                 *)

UpperCase == <<"A","B","C","D","E","F","G","H","I","J","K","L","M",
               "N","O","P","Q","R","S","T","U","V","W","X","Y","Z">>
LowerCase == <<"a","b","c","d","e","f","g","h","i","j","k","l","m",
               "n","o","p","q","r","s","t","u","v","w","x","y","z">>

charToLower(c) ==
    IF \E i \in 1..26 : UpperCase[i] = c
    THEN LowerCase[CHOOSE i \in 1..26 : UpperCase[i] = c]
    ELSE c

\* String.prototype.includes (case-sensitive)
includes(s, p) ==
    \E i \in 1..(Len(s) - Len(p) + 1) : SubSeq(s, i, i + Len(p) - 1) = p

\* pattern.test(s) for a literal pattern with the /i flag: p occurs in s, letters
\* compared without regard to case
testIgnoreCase(p, s) ==
    \E i \in 1..(Len(s) - Len(p) + 1) :
        \A j \in 1..Len(p) :
            charToLower(SubSeq(s, i + j - 1, i + j - 1)) = charToLower(SubSeq(p, j, j))

\* String.prototype.toLowerCase
RECURSIVE toLowerCase(_)
toLowerCase(s) ==
    IF s = "" THEN ""
    ELSE charToLower(SubSeq(s, 1, 1)) \o toLowerCase(SubSeq(s, 2, Len(s)))

\* s.trim() === ''
trimIsEmpty(s) == \A i \in 1..Len(s) : SubSeq(s, i, i) \in {" ", "\t"}

\* a JavaScript object used as a map: obj[k], undefined when k is not a key
HasKey(obj, k) == k \in DOMAIN obj
Get(obj, k) == IF HasKey(obj, k) THEN Some(obj[k]) ELSE None
\* truthiness of an optional string: undefined and '' are falsy
Truthy(o) == o # None /\ Val(o) # ""
\* a || b
Or(a, b) == IF Truthy(a) THEN a ELSE b
\* a || '' as a string
OrEmpty(a) == IF Truthy(a) THEN Val(a) ELSE ""

-----------------------------------------------------------------------------
(* BotHeuristicClassifier: isBotUserAgent, checkSuspiciousHeaders           *)

BOT_USER_AGENTS == <<"bot", "crawler", "spider", "scraper", "curl", "wget",
                     "python-requests", "node-fetch", "axios", "postman">>

isBotUserAgent_CaseSensitive(userAgent) ==
    \/ userAgent = "" \/ trimIsEmpty(userAgent)
    \/ \E k \in 1..Len(BOT_USER_AGENTS) : includes(userAgent, BOT_USER_AGENTS[k])

isBotUserAgent(userAgent) ==
    \/ userAgent = "" \/ trimIsEmpty(userAgent)
    \/ \E k \in 1..Len(BOT_USER_AGENTS) : testIgnoreCase(BOT_USER_AGENTS[k], userAgent)

checkSuspiciousHeaders_OnlyMissing(headers) ==
    LET hasAccept == Or(Get(headers, "accept"), Get(headers, "Accept"))
        hasAcceptLanguage == Or(Get(headers, "accept-language"), Get(headers, "Accept-Language"))
        hasAcceptEncoding == Or(Get(headers, "accept-encoding"), Get(headers, "Accept-Encoding"))
    IN  IF ~Truthy(hasAccept) \/ ~Truthy(hasAcceptLanguage) \/ ~Truthy(hasAcceptEncoding)
        THEN [suspicious |-> TRUE, reason |-> "Missing common browser headers"]
        ELSE [suspicious |-> FALSE, reason |-> ""]

checkSuspiciousHeaders(headers) ==
    LET hasAccept == Or(Get(headers, "accept"), Get(headers, "Accept"))
        hasAcceptLanguage == Or(Get(headers, "accept-language"), Get(headers, "Accept-Language"))
        hasAcceptEncoding == Or(Get(headers, "accept-encoding"), Get(headers, "Accept-Encoding"))
        userAgent == OrEmpty(Or(Get(headers, "user-agent"), Get(headers, "User-Agent")))
        referer == OrEmpty(Or(Get(headers, "referer"), Get(headers, "Referer")))
    IN  IF ~Truthy(hasAccept) \/ ~Truthy(hasAcceptLanguage) \/ ~Truthy(hasAcceptEncoding)
        THEN [suspicious |-> TRUE, reason |-> "Missing common browser headers"]
        ELSE IF includes(userAgent, "Mozilla") /\ referer = "" /\ Val(hasAccept) = "*/*"
        THEN [suspicious |-> TRUE, reason |-> "Suspicious header combination"]
        ELSE [suspicious |-> FALSE, reason |-> ""]

-----------------------------------------------------------------------------
(* Requests reaching botBlockingMiddleware.  Node lower-cases header names. *)

BrowserUA == "Mozilla/5.0 (Windows NT 10.0; Win64; x64) AppleWebKit/537.36 (KHTML, like Gecko) Chrome/91.0.4472.124 Safari/537.36"
BrowserAccept == "text/html,application/xhtml+xml,application/xml;q=0.9,image/webp,*/*;q=0.8"

RequestNames == {"browser", "curl", "python", "postman", "noUA", "blankUA",
                 "missingLang", "emptyLang", "anyAccept", "anyAcceptReferer",
                 "emptyReferer", "opera"}

Headers(name) ==
    CASE name = "browser" ->
            ("user-agent" :> BrowserUA) @@ ("accept" :> BrowserAccept) @@
            ("accept-language" :> "en-US,en;q=0.5") @@
            ("accept-encoding" :> "gzip, deflate, br") @@ ("referer" :> "https://google.com")
      [] name = "curl" -> ("user-agent" :> "curl/7.68.0") @@ ("accept" :> "*/*")
      [] name = "python" ->
            ("user-agent" :> "python-requests/2.25.1") @@ ("accept" :> BrowserAccept) @@
            ("accept-language" :> "en-US,en;q=0.5") @@
            ("accept-encoding" :> "gzip, deflate, br") @@ ("referer" :> "https://google.com")
      [] name = "postman" -> ("user-agent" :> "PostmanRuntime/7.28.4") @@ ("accept" :> "*/*")
      [] name = "noUA" -> ("accept" :> "*/*")
      [] name = "blankUA" ->
            ("user-agent" :> "  ") @@ ("accept" :> BrowserAccept) @@
            ("accept-language" :> "en-US,en;q=0.5") @@
            ("accept-encoding" :> "gzip, deflate, br") @@ ("referer" :> "https://google.com")
      [] name = "missingLang" ->
            ("user-agent" :> "Mozilla/5.0 (Windows NT 10.0; Win64; x64) AppleWebKit/537.36") @@
            ("accept" :> "*/*")
      [] name = "emptyLang" ->
            ("user-agent" :> BrowserUA) @@ ("accept" :> BrowserAccept) @@
            ("accept-language" :> "") @@
            ("accept-encoding" :> "gzip, deflate, br") @@ ("referer" :> "https://google.com")
      [] name = "anyAccept" ->
            ("user-agent" :> BrowserUA) @@ ("accept" :> "*/*") @@
            ("accept-language" :> "en-US,en;q=0.5") @@ ("accept-encoding" :> "gzip, deflate, br")
      [] name = "anyAcceptReferer" ->
            ("user-agent" :> BrowserUA) @@ ("accept" :> "*/*") @@
            ("accept-language" :> "en-US,en;q=0.5") @@
            ("accept-encoding" :> "gzip, deflate, br") @@ ("referer" :> "https://google.com")
      [] name = "emptyReferer" ->
            ("user-agent" :> BrowserUA) @@ ("accept" :> "*/*") @@
            ("accept-language" :> "en-US,en;q=0.5") @@
            ("accept-encoding" :> "gzip, deflate, br") @@ ("referer" :> "")
      [] name = "opera" ->
            ("user-agent" :> "Opera/9.80 (X11; Linux i686) Presto/2.12.388 Version/12.16") @@
            ("accept" :> "*/*") @@
            ("accept-language" :> "en-US,en;q=0.5") @@ ("accept-encoding" :> "gzip, deflate, br")

\* botBlockingMiddleware: const userAgent = req.headers['user-agent'] || ''
UserAgentOf(name) == OrEmpty(Get(Headers(name), "user-agent"))

\* the classifier's verdict on each request (the classifier is stateless):
\* isBotUserAgent(userAgent) and checkSuspiciousHeaders(headers) as checkRequest
\* evaluates them for the request the middleware hands it
Classified ==
    [name \in RequestNames |->
        [bot |-> isBotUserAgent(UserAgentOf(name)),
         suspicious |-> checkSuspiciousHeaders(Headers(name)).suspicious]] @@ <<>>

-----------------------------------------------------------------------------
(* BotBlockingService.  S is the service's state: the three collections.    *)

Svc == [ipRequestTracker |-> ipRequestTracker,
        suspiciousIPs |-> suspiciousIPs,
        blockedIPs |-> blockedIPs]

\* Map.set (Array.prototype.filter is SelectSeq)
MapSet(m, k, v) == [x \in (DOMAIN m) \cup {k} |-> IF x = k THEN v ELSE m[x]]

\* Math.ceil(a / b), b > 0
Ceil_FloorPlusOne(a, b) == (a \div b) + 1

Ceil(a, b) == 0 - ((0 - a) \div b)

\* the object recordRequest / checkRateLimit start from when the IP is unknown
NewIpData == [requests |-> <<>>, blocked |-> FALSE, blockedUntil |-> None,
              blockReason |-> None, blockedAt |-> None]

isIPBlocked_KeepsBlockedSet(S, clientIP, t) ==
    IF clientIP \notin DOMAIN S.ipRequestTracker \/ ~S.ipRequestTracker[clientIP].blocked
    THEN [ret |-> FALSE, S |-> S]
    ELSE LET ipData == S.ipRequestTracker[clientIP] IN
         IF ipData.blockedUntil # None /\ t >= Val(ipData.blockedUntil)
         THEN [ret |-> FALSE,
               S |-> [S EXCEPT !.ipRequestTracker[clientIP].blocked = FALSE,
                               !.ipRequestTracker[clientIP].blockedUntil = None]]
         ELSE [ret |-> TRUE, S |-> S]

isIPBlocked_ExtendsBlock(S, clientIP, t) ==
    IF clientIP \notin DOMAIN S.ipRequestTracker \/ ~S.ipRequestTracker[clientIP].blocked
    THEN [ret |-> FALSE, S |-> S]
    ELSE LET ipData == S.ipRequestTracker[clientIP] IN
         IF ipData.blockedUntil # None /\ t >= Val(ipData.blockedUntil)
         THEN [ret |-> FALSE,
               S |-> [S EXCEPT !.ipRequestTracker[clientIP].blocked = FALSE,
                               !.ipRequestTracker[clientIP].blockedUntil = None,
                               !.blockedIPs = @ \ {clientIP}]]
         ELSE [ret |-> TRUE,
               S |-> [S EXCEPT !.ipRequestTracker[clientIP].blockedUntil =
                                    Some(t + BLOCK_DURATION_MS)]]

isIPBlocked_ExpiryStrict(S, clientIP, t) ==
    IF clientIP \notin DOMAIN S.ipRequestTracker \/ ~S.ipRequestTracker[clientIP].blocked
    THEN [ret |-> FALSE, S |-> S]
    ELSE LET ipData == S.ipRequestTracker[clientIP] IN
         IF ipData.blockedUntil # None /\ t > Val(ipData.blockedUntil)
         THEN [ret |-> FALSE,
               S |-> [S EXCEPT !.ipRequestTracker[clientIP].blocked = FALSE,
                               !.ipRequestTracker[clientIP].blockedUntil = None,
                               !.blockedIPs = @ \ {clientIP}]]
         ELSE [ret |-> TRUE, S |-> S]

isIPBlocked(S, clientIP, t) ==
    IF clientIP \notin DOMAIN S.ipRequestTracker \/ ~S.ipRequestTracker[clientIP].blocked
    THEN [ret |-> FALSE, S |-> S]
    ELSE LET ipData == S.ipRequestTracker[clientIP] IN
         IF ipData.blockedUntil # None /\ t >= Val(ipData.blockedUntil)
         THEN [ret |-> FALSE,
               S |-> [S EXCEPT !.ipRequestTracker[clientIP].blocked = FALSE,
                               !.ipRequestTracker[clientIP].blockedUntil = None,
                               !.blockedIPs = @ \ {clientIP}]]
         ELSE [ret |-> TRUE, S |-> S]

checkRateLimit_OpenWindow(S, clientIP, t) ==
    LET ipData == IF clientIP \in DOMAIN S.ipRequestTracker
                  THEN S.ipRequestTracker[clientIP] ELSE NewIpData
        InWindow(timestamp) == t - timestamp < TIME_WINDOW_MS
        recentRequests == SelectSeq(ipData.requests, InWindow)
    IN  [exceeded |-> Len(recentRequests) >= MAX_REQUESTS_PER_WINDOW,
         requestCount |-> Len(recentRequests)]

checkRateLimit_Above(S, clientIP, t) ==
    LET ipData == IF clientIP \in DOMAIN S.ipRequestTracker
                  THEN S.ipRequestTracker[clientIP] ELSE NewIpData
        InWindow(timestamp) == t - timestamp <= TIME_WINDOW_MS
        recentRequests == SelectSeq(ipData.requests, InWindow)
    IN  [exceeded |-> Len(recentRequests) > MAX_REQUESTS_PER_WINDOW,
         requestCount |-> Len(recentRequests)]

checkRateLimit(S, clientIP, t) ==
    LET ipData == IF clientIP \in DOMAIN S.ipRequestTracker
                  THEN S.ipRequestTracker[clientIP] ELSE NewIpData
        InWindow(timestamp) == t - timestamp <= TIME_WINDOW_MS
        recentRequests == SelectSeq(ipData.requests, InWindow)
    IN  [exceeded |-> Len(recentRequests) >= MAX_REQUESTS_PER_WINDOW,
         requestCount |-> Len(recentRequests)]

recordRequest_LostUpdate(S, clientIP, timestamp) ==
    LET ipData == IF clientIP \in DOMAIN S.ipRequestTracker
                  THEN S.ipRequestTracker[clientIP] ELSE NewIpData
        cutoff == timestamp - (TIME_WINDOW_MS * RECORD_BUFFER_FACTOR)
        After(ts) == ts > cutoff
        requests == SelectSeq(ipData.requests, After)
    IN  [S EXCEPT !.ipRequestTracker =
            MapSet(@, clientIP, [ipData EXCEPT !.requests = requests])]

recordRequest(S, clientIP, timestamp) ==
    LET ipData == IF clientIP \in DOMAIN S.ipRequestTracker
                  THEN S.ipRequestTracker[clientIP] ELSE NewIpData
        cutoff == timestamp - (TIME_WINDOW_MS * RECORD_BUFFER_FACTOR)
        After(ts) == ts > cutoff
        requests == SelectSeq(Append(ipData.requests, timestamp), After)
    IN  [S EXCEPT !.ipRequestTracker =
            MapSet(@, clientIP, [ipData EXCEPT !.requests = requests])]

blockIP_UntilUnset(S, clientIP, blockedUntil, reason, t) ==
    LET ipData == IF clientIP \in DOMAIN S.ipRequestTracker
                  THEN S.ipRequestTracker[clientIP] ELSE NewIpData
    IN  [S EXCEPT !.ipRequestTracker =
            MapSet(@, clientIP, [ipData EXCEPT !.blocked = TRUE,
                                               !.blockReason = Some(reason),
                                               !.blockedAt = Some(t)]),
                  !.blockedIPs = @ \cup {clientIP}]

blockIP(S, clientIP, blockedUntil, reason, t) ==
    LET ipData == IF clientIP \in DOMAIN S.ipRequestTracker
                  THEN S.ipRequestTracker[clientIP] ELSE NewIpData
    IN  [S EXCEPT !.ipRequestTracker =
            MapSet(@, clientIP, [ipData EXCEPT !.blocked = TRUE,
                                               !.blockedUntil = Some(blockedUntil),
                                               !.blockReason = Some(reason),
                                               !.blockedAt = Some(t)]),
                  !.blockedIPs = @ \cup {clientIP}]

flagSuspiciousIP_Blocks(S, clientIP) ==
    [S EXCEPT !.suspiciousIPs = @ \cup {clientIP}, !.blockedIPs = @ \cup {clientIP}]

flagSuspiciousIP(S, clientIP) == [S EXCEPT !.suspiciousIPs = @ \cup {clientIP}]

unblockIP_ForgetsRequests(S, clientIP) ==
    LET T == IF clientIP \in DOMAIN S.ipRequestTracker
             THEN [S.ipRequestTracker EXCEPT ![clientIP] = NewIpData]
             ELSE S.ipRequestTracker
    IN  [ipRequestTracker |-> T,
         suspiciousIPs |-> S.suspiciousIPs \ {clientIP},
         blockedIPs |-> S.blockedIPs \ {clientIP}]

unblockIP_KeepsBlockedSet(S, clientIP) ==
    LET T == IF clientIP \in DOMAIN S.ipRequestTracker
             THEN [S.ipRequestTracker EXCEPT ![clientIP].blocked = FALSE,
                                             ![clientIP].blockedUntil = None,
                                             ![clientIP].blockReason = None,
                                             ![clientIP].blockedAt = None]
             ELSE S.ipRequestTracker
    IN  [ipRequestTracker |-> T,
         suspiciousIPs |-> S.suspiciousIPs \ {clientIP},
         blockedIPs |-> S.blockedIPs]

unblockIP_UnflagsEveryIP(S, clientIP) ==
    LET T == IF clientIP \in DOMAIN S.ipRequestTracker
             THEN [S.ipRequestTracker EXCEPT ![clientIP].blocked = FALSE,
                                             ![clientIP].blockedUntil = None,
                                             ![clientIP].blockReason = None,
                                             ![clientIP].blockedAt = None]
             ELSE S.ipRequestTracker
    IN  [ipRequestTracker |-> T,
         suspiciousIPs |-> {},
         blockedIPs |-> S.blockedIPs \ {clientIP}]

unblockIP(S, clientIP) ==
    LET T == IF clientIP \in DOMAIN S.ipRequestTracker
             THEN [S.ipRequestTracker EXCEPT ![clientIP].blocked = FALSE,
                                             ![clientIP].blockedUntil = None,
                                             ![clientIP].blockReason = None,
                                             ![clientIP].blockedAt = None]
             ELSE S.ipRequestTracker
    IN  [ipRequestTracker |-> T,
         suspiciousIPs |-> S.suspiciousIPs \ {clientIP},
         blockedIPs |-> S.blockedIPs \ {clientIP}]

\* unblockIP's return value
unblockIPReturns(S, clientIP) == TRUE

getStats_CountsBlockedSet(S, t) ==
    LET blockedRecords == {ip \in DOMAIN S.ipRequestTracker : S.ipRequestTracker[ip].blocked}
        Expired(ip) ==
            LET data == S.ipRequestTracker[ip]
            IN  data.blockedUntil # None /\ Val(data.blockedUntil) # 0
                    /\ t >= Val(data.blockedUntil)
        Entry(ip) ==
            LET data == S.ipRequestTracker[ip]
            IN  [ip |-> ip, blockedAt |-> data.blockedAt, blockedUntil |-> data.blockedUntil,
                 reason |-> data.blockReason,
                 remainingTime |->
                    IF data.blockedUntil # None /\ Val(data.blockedUntil) # 0
                    THEN Ceil(Val(data.blockedUntil) - t, MS_PER_SECOND) ELSE 0]
        activeBlocks == {Entry(ip) : ip \in {x \in blockedRecords : ~Expired(x)}}
        expiredBlocks == {ip \in blockedRecords : Expired(ip)}
    IN  [activeBlocks |-> Cardinality(S.blockedIPs),
         activeBlockedIPs |-> activeBlocks,
         suspiciousIPs |-> S.suspiciousIPs,
         totalTrackedIPs |-> Cardinality(DOMAIN S.ipRequestTracker),
         expiredBlocks |-> Cardinality(expiredBlocks)]

\* getStats reads the collections and writes none.  activeBlockedIPs is the
\* array of entries, here as their set (the entries differ by ip)
getStats(S, t) ==
    LET blockedRecords == {ip \in DOMAIN S.ipRequestTracker : S.ipRequestTracker[ip].blocked}
        Expired(ip) ==
            LET data == S.ipRequestTracker[ip]
            IN  data.blockedUntil # None /\ Val(data.blockedUntil) # 0
                    /\ t >= Val(data.blockedUntil)
        Entry(ip) ==
            LET data == S.ipRequestTracker[ip]
            IN  [ip |-> ip, blockedAt |-> data.blockedAt, blockedUntil |-> data.blockedUntil,
                 reason |-> data.blockReason,
                 remainingTime |->
                    IF data.blockedUntil # None /\ Val(data.blockedUntil) # 0
                    THEN Ceil(Val(data.blockedUntil) - t, MS_PER_SECOND) ELSE 0]
        activeBlocks == {Entry(ip) : ip \in {x \in blockedRecords : ~Expired(x)}}
        expiredBlocks == {ip \in blockedRecords : Expired(ip)}
    IN  [activeBlocks |-> Cardinality(activeBlocks),
         activeBlockedIPs |-> activeBlocks,
         suspiciousIPs |-> S.suspiciousIPs,
         totalTrackedIPs |-> Cardinality(DOMAIN S.ipRequestTracker),
         expiredBlocks |-> Cardinality(expiredBlocks)]

cleanup_KeepsTimestamps(S, t) ==
    LET cutoff == t - (TIME_WINDOW_MS * CLEANUP_KEEP_FACTOR)
        After(timestamp) == timestamp > cutoff
        Kept(ip) == SelectSeq(S.ipRequestTracker[ip].requests, After)
        removed == {ip \in DOMAIN S.ipRequestTracker :
                        ~S.ipRequestTracker[ip].blocked /\ Len(Kept(ip)) = 0}
    IN  [ipRequestTracker |->
            [ip \in (DOMAIN S.ipRequestTracker) \ removed |-> S.ipRequestTracker[ip]],
         suspiciousIPs |-> S.suspiciousIPs \ removed,
         blockedIPs |-> S.blockedIPs]

cleanup_IgnoresBlocked(S, t) ==
    LET cutoff == t - (TIME_WINDOW_MS * CLEANUP_KEEP_FACTOR)
        After(timestamp) == timestamp > cutoff
        Kept(ip) == SelectSeq(S.ipRequestTracker[ip].requests, After)
        removed == {ip \in DOMAIN S.ipRequestTracker : Len(Kept(ip)) = 0}
    IN  [ipRequestTracker |->
            [ip \in (DOMAIN S.ipRequestTracker) \ removed |->
                [S.ipRequestTracker[ip] EXCEPT !.requests = Kept(ip)]],
         suspiciousIPs |-> S.suspiciousIPs \ removed,
         blockedIPs |-> S.blockedIPs]

cleanup(S, t) ==
    LET cutoff == t - (TIME_WINDOW_MS * CLEANUP_KEEP_FACTOR)
        After(timestamp) == timestamp > cutoff
        Kept(ip) == SelectSeq(S.ipRequestTracker[ip].requests, After)
        removed == {ip \in DOMAIN S.ipRequestTracker :
                        ~S.ipRequestTracker[ip].blocked /\ Len(Kept(ip)) = 0}
    IN  [ipRequestTracker |->
            [ip \in (DOMAIN S.ipRequestTracker) \ removed |->
                [S.ipRequestTracker[ip] EXCEPT !.requests = Kept(ip)]],
         suspiciousIPs |-> S.suspiciousIPs \ removed,
         blockedIPs |-> S.blockedIPs]

\* Array.from(this.blockedIPs), as the set of its elements
getBlockedIPsList(S) == S.blockedIPs

\* null for an empty list, else one deny route per listed IP (named by the
\* x-forwarded-for value it matches)
generateVercelFirewallConfig(S) ==
    LET list == getBlockedIPsList(S)
    IN  IF list = {} THEN None
        ELSE Some({[src |-> "/(.*)", key |-> "x-forwarded-for", value |-> ip,
                    action |-> "deny"] : ip \in list})

Decision(S, blocked, ruleTriggered, retryAfter) ==
    [S |-> S, blocked |-> blocked, ruleTriggered |-> ruleTriggered, retryAfter |-> retryAfter]

checkRequest_RecordsDenied(S, clientIP, req, t) ==
    LET b == isIPBlocked(S, clientIP, t) IN
    IF b.ret
    THEN LET u == b.S.ipRequestTracker[clientIP].blockedUntil
             blockedUntil == IF u # None /\ Val(u) # 0 THEN Val(u) ELSE t
         IN  Decision(b.S, TRUE, "IP_BLOCKED", Ceil(blockedUntil - t, MS_PER_SECOND))
    ELSE IF Classified[req].bot
    THEN Decision(flagSuspiciousIP(recordRequest(b.S, clientIP, t), clientIP), TRUE,
                  "BOT_USER_AGENT", Ceil(BLOCK_DURATION_MS, MS_PER_SECOND))
    ELSE IF Classified[req].suspicious
    THEN Decision(flagSuspiciousIP(recordRequest(b.S, clientIP, t), clientIP), TRUE,
                  "SUSPICIOUS_HEADERS", Ceil(BLOCK_DURATION_MS, MS_PER_SECOND))
    ELSE IF checkRateLimit(b.S, clientIP, t).exceeded
    THEN Decision(blockIP(b.S, clientIP, t + BLOCK_DURATION_MS, "RATE_LIMIT_EXCEEDED", t),
                  TRUE, "RATE_LIMIT", Ceil(BLOCK_DURATION_MS, MS_PER_SECOND))
    ELSE Decision(recordRequest(b.S, clientIP, t), FALSE, "null", 0)

checkRequest_RateLimitFirst(S, clientIP, req, t) ==
    LET b == isIPBlocked(S, clientIP, t) IN
    IF b.ret
    THEN LET u == b.S.ipRequestTracker[clientIP].blockedUntil
             blockedUntil == IF u # None /\ Val(u) # 0 THEN Val(u) ELSE t
         IN  Decision(b.S, TRUE, "IP_BLOCKED", Ceil(blockedUntil - t, MS_PER_SECOND))
    ELSE IF checkRateLimit(b.S, clientIP, t).exceeded
    THEN Decision(blockIP(b.S, clientIP, t + BLOCK_DURATION_MS, "RATE_LIMIT_EXCEEDED", t),
                  TRUE, "RATE_LIMIT", Ceil(BLOCK_DURATION_MS, MS_PER_SECOND))
    ELSE IF Classified[req].bot
    THEN Decision(flagSuspiciousIP(b.S, clientIP), TRUE, "BOT_USER_AGENT",
                  Ceil(BLOCK_DURATION_MS, MS_PER_SECOND))
    ELSE IF Classified[req].suspicious
    THEN Decision(flagSuspiciousIP(b.S, clientIP), TRUE, "SUSPICIOUS_HEADERS",
                  Ceil(BLOCK_DURATION_MS, MS_PER_SECOND))
    ELSE Decision(recordRequest(b.S, clientIP, t), FALSE, "null", 0)

\* req names the request: userAgent = UserAgentOf(req), headers = Headers(req)
checkRequest(S, clientIP, req, t) ==
    LET b == isIPBlocked(S, clientIP, t) IN
    IF b.ret
    THEN LET u == b.S.ipRequestTracker[clientIP].blockedUntil
             blockedUntil == IF u # None /\ Val(u) # 0 THEN Val(u) ELSE t
         IN  Decision(b.S, TRUE, "IP_BLOCKED", Ceil(blockedUntil - t, MS_PER_SECOND))
    ELSE IF Classified[req].bot
    THEN Decision(flagSuspiciousIP(b.S, clientIP), TRUE, "BOT_USER_AGENT",
                  Ceil(BLOCK_DURATION_MS, MS_PER_SECOND))
    ELSE IF Classified[req].suspicious
    THEN Decision(flagSuspiciousIP(b.S, clientIP), TRUE, "SUSPICIOUS_HEADERS",
                  Ceil(BLOCK_DURATION_MS, MS_PER_SECOND))
    ELSE IF checkRateLimit(b.S, clientIP, t).exceeded
    THEN Decision(blockIP(b.S, clientIP, t + BLOCK_DURATION_MS, "RATE_LIMIT_EXCEEDED", t),
                  TRUE, "RATE_LIMIT", Ceil(BLOCK_DURATION_MS, MS_PER_SECOND))
    ELSE Decision(recordRequest(b.S, clientIP, t), FALSE, "null", 0)

-----------------------------------------------------------------------------
(* Operations of the BotBlockingService process.                           *)

Install(S) ==
    /\ ipRequestTracker' = S.ipRequestTracker
    /\ suspiciousIPs' = S.suspiciousIPs
    /\ blockedIPs' = S.blockedIPs

NoBurst == [ip \in IPs |-> None]

\* a request that neither heuristic rejects
WellFormed(name) == ~Classified[name].bot /\ ~Classified[name].suspicious

\* the run an IP is in: started by a well-formed request while the IP had no
\* record, continued by each well-formed request within one window of it
BurstAfter(ip, name) ==
    IF ~WellFormed(name) THEN burst[ip]
    ELSE IF ip \notin DOMAIN ipRequestTracker THEN <<now, 1>>
    ELSE IF burst[ip] # None /\ now - burst[ip][1] <= TIME_WINDOW_MS
    THEN <<burst[ip][1], IF burst[ip][2] > MAX_REQUESTS_PER_WINDOW + 1
                         THEN burst[ip][2] ELSE burst[ip][2] + 1>>
    ELSE None

\* what an operation returned: checkRequest's decision (k: the request's place in
\* its run), or the HTTP status a claim handler answered with
Op(op, ip, blocked, ruleTriggered, retryAfter, k) ==
    [op |-> op, ip |-> ip, blocked |-> blocked,
     ruleTriggered |-> ruleTriggered, retryAfter |-> retryAfter, k |-> k, status |-> 0,
     next |-> 0]

\* what botBlockingMiddleware does with checkRequest's decision: answer 429
\* and return, or call next() (status 0: the middleware sends no response)
respond(blockCheck) ==
    IF blockCheck.blocked THEN [status |-> 429, next |-> 0]
    ELSE [status |-> 0, next |-> 1]

\* botBlockingMiddleware -> botBlockingService.checkRequest(clientIP, userAgent, headers)
BotBlockingMiddleware(ip, name) ==
    LET d == checkRequest(Svc, ip, name, now)
        b == BurstAfter(ip, name)
    IN  /\ Install(d.S)
        /\ burst' = [burst EXCEPT ![ip] = b]
        /\ admitted' = IF d.blocked THEN admitted
                       ELSE [admitted EXCEPT ![ip] = Append(@, now)]
        /\ last' = [Op("checkRequest", ip, d.blocked, d.ruleTriggered, d.retryAfter,
                       IF WellFormed(name) /\ b # None THEN b[2] ELSE 0)
                        EXCEPT !.status = respond(d).status, !.next = respond(d).next]
        /\ UNCHANGED <<now, mintVars, tokenVars>>

\* POST /api/security/unblock with the admin secret
UnblockIP(ip) ==
    /\ Install(unblockIP(Svc, ip))
    /\ last' = Op("unblockIP", ip, FALSE, "null", 0, 0)
    /\ UNCHANGED <<now, burst, admitted, mintVars, tokenVars>>

\* GET /api/security/stats with the admin secret
GetStats ==
    /\ last' = [Op("getStats", "", FALSE, "null", 0, 0) EXCEPT !.status = 200]
    /\ UNCHANGED <<botVars, mintVars, tokenVars>>

\* the setInterval callback of startCleanupInterval.  The constructor arms the
\* interval and the handle setInterval returns is dropped, so the callback has
\* no guard: nothing in the service can disarm it
Cleanup ==
    /\ Install(cleanup(Svc, now))
    /\ last' = Op("cleanup", "", FALSE, "null", 0, 0)
    /\ UNCHANGED <<now, burst, admitted, mintVars, tokenVars>>

\* the clock of the process advances
Tick ==
    LET StillInWindow(timestamp) == now + 1 - timestamp <= TIME_WINDOW_MS IN
    /\ now < MaxTime
    /\ now' = now + 1
    /\ burst' = [ip \in IPs |->
                    IF burst[ip] # None /\ now + 1 - burst[ip][1] > TIME_WINDOW_MS
                    THEN None ELSE burst[ip]]
    /\ admitted' = [ip \in IPs |-> SelectSeq(admitted[ip], StillInWindow)]
    /\ last' = Op("tick", "", FALSE, "null", 0, 0)
    /\ UNCHANGED <<ipRequestTracker, suspiciousIPs, blockedIPs, mintVars, tokenVars>>

-----------------------------------------------------------------------------
(* RateLimitService: global mint limiter.  M is globalMintTracker, t the    *)
(* Date the call reads.  The claim-endpoint clock counts TICKS_PER_MINUTE   *)
(* units to the calendar minute (60000 ms in the code).                     *)

GLOBAL_TOKENS_PER_MINUTE == 20
CLEANUP_AGE_MINUTES == 2
MINUTES_PER_HOUR == 60
HOURS_PER_DAY == 24

TICKS_PER_MINUTE == 2
StartMinute == 58
MaxInFlight == 2
MaxStarted == 2
PreMinted == 19

StartClock == StartMinute * TICKS_PER_MINUTE
\* the run covers the minutes it takes a bucket to be purged
MaxClock == StartClock + (CLEANUP_AGE_MINUTES + 1) * TICKS_PER_MINUTE

\* The calendar fields of the Date at instant t, in the server's time zone
\* (no daylight-saving shift).  Instant 0 is 00:00 on 1 January of EpochYear;
\* the years the model reaches have DAYS_PER_YEAR days.
DAYS_PER_YEAR == 365
EpochYear == 2025
\* the day of the year on which each month starts
MonthStart == <<0, 31, 59, 90, 120, 151, 181, 212, 243, 273, 304, 334>>

MinuteIndex(t) == t \div TICKS_PER_MINUTE
DayIndex(t) == MinuteIndex(t) \div (MINUTES_PER_HOUR * HOURS_PER_DAY)
DayOfYear(t) == DayIndex(t) % DAYS_PER_YEAR
getMinutes(t) == MinuteIndex(t) % MINUTES_PER_HOUR
getHours(t) == (MinuteIndex(t) \div MINUTES_PER_HOUR) % HOURS_PER_DAY
getFullYear(t) == EpochYear + (DayIndex(t) \div DAYS_PER_YEAR)
\* January is month 0
getMonth(t) ==
    (CHOOSE m \in 1..Len(MonthStart) :
        /\ MonthStart[m] <= DayOfYear(t)
        /\ m < Len(MonthStart) => DayOfYear(t) < MonthStart[m + 1]) - 1
\* the day of the month, from 1
getDate(t) == DayOfYear(t) - MonthStart[getMonth(t) + 1] + 1
\* date.setHours(0, 0, 0, 0); date.getTime()
setHoursZero(t) == DayIndex(t) * HOURS_PER_DAY * MINUTES_PER_HOUR * TICKS_PER_MINUTE

getCurrentMinuteKey_NoMinutes(t) ==
    ToString(getFullYear(t)) \o "-" \o ToString(getMonth(t)) \o "-" \o ToString(getDate(t))
        \o "-" \o ToString(getHours(t))

getCurrentMinuteKey_NoMonth(t) ==
    ToString(getFullYear(t)) \o "-" \o ToString(getDate(t))
        \o "-" \o ToString(getHours(t)) \o "-" \o ToString(getMinutes(t))

\* `${year}-${month}-${date}-${hours}-${minutes}`
getCurrentMinuteKey(t) ==
    ToString(getFullYear(t)) \o "-" \o ToString(getMonth(t)) \o "-" \o ToString(getDate(t))
        \o "-" \o ToString(getHours(t)) \o "-" \o ToString(getMinutes(t))

cleanupOldMintTracking_Never(M, t) == M

cleanupOldMintTracking(M, t) ==
    LET old == {key \in DOMAIN M :
                    t - M[key].timestamp > CLEANUP_AGE_MINUTES * TICKS_PER_MINUTE}
    IN  [key \in (DOMAIN M) \ old |-> M[key]]

isGlobalRateLimitExceeded_Strict(M, t) ==
    LET M1 == cleanupOldMintTracking(M, t)
        currentMinute == getCurrentMinuteKey(t)
    IN  [M |-> M1,
         ret |-> IF currentMinute \notin DOMAIN M1 THEN FALSE
                 ELSE M1[currentMinute].count > GLOBAL_TOKENS_PER_MINUTE]

isGlobalRateLimitExceeded(M, t) ==
    LET M1 == cleanupOldMintTracking(M, t)
        currentMinute == getCurrentMinuteKey(t)
    IN  [M |-> M1,
         ret |-> IF currentMinute \notin DOMAIN M1 THEN FALSE
                 ELSE M1[currentMinute].count >= GLOBAL_TOKENS_PER_MINUTE]

recordGlobalMint_StopsAtLimit(M, t) ==
    LET M1 == cleanupOldMintTracking(M, t)
        currentMinute == getCurrentMinuteKey(t)
        currentData == IF currentMinute \in DOMAIN M1 THEN M1[currentMinute]
                       ELSE [count |-> 0, timestamp |-> t]
    IN  MapSet(M1, currentMinute,
               [currentData EXCEPT !.count = IF @ >= GLOBAL_TOKENS_PER_MINUTE THEN @ ELSE @ + 1])

recordGlobalMint(M, t) ==
    LET M1 == cleanupOldMintTracking(M, t)
        currentMinute == getCurrentMinuteKey(t)
        currentData == IF currentMinute \in DOMAIN M1 THEN M1[currentMinute]
                       ELSE [count |-> 0, timestamp |-> t]
    IN  MapSet(M1, currentMinute, [currentData EXCEPT !.count = @ + 1])

getGlobalMintStats(M, t) ==
    LET M1 == cleanupOldMintTracking(M, t)
        currentMinute == getCurrentMinuteKey(t)
        exceeded == isGlobalRateLimitExceeded(M1, t)
    IN  [M |-> exceeded.M,
         currentMinute |-> currentMinute,
         tokensThisMinute |-> IF currentMinute \in DOMAIN M1 THEN M1[currentMinute].count ELSE 0,
         maxTokensPerMinute |-> GLOBAL_TOKENS_PER_MINUTE,
         isLimitExceeded |-> exceeded.ret]

\* lastClaimDate.setHours(0, 0, 0, 0) and today.setHours(0, 0, 0, 0) are the same instant
hasClaimedToday(C, sparkAddress, t) ==
    LET normalizedAddress == toLowerCase(sparkAddress)
    IN  IF normalizedAddress \notin DOMAIN C THEN FALSE
        ELSE setHoursZero(C[normalizedAddress].lastClaim) = setHoursZero(t)

\* recordClaim up to its await: this.claims.set(normalizedAddress, claimData)
recordClaim_KeyedAsGiven(C, sparkAddress, t) ==
    LET known == sparkAddress \in DOMAIN C
    IN  MapSet(C, sparkAddress,
               [address |-> sparkAddress,
                lastClaim |-> t,
                claimCount |-> (IF known THEN C[sparkAddress].claimCount ELSE 0) + 1,
                firstClaim |-> IF known THEN C[sparkAddress].firstClaim ELSE t])

getClaimStats(C, sparkAddress, t) ==
    LET normalizedAddress == toLowerCase(sparkAddress)
    IN  IF normalizedAddress \notin DOMAIN C
        THEN [hasClaimed |-> FALSE, claimCount |-> 0, firstClaim |-> None, lastClaim |-> None]
        ELSE [hasClaimed |-> hasClaimedToday(C, sparkAddress, t),
              claimCount |-> C[normalizedAddress].claimCount,
              firstClaim |-> Some(C[normalizedAddress].firstClaim),
              lastClaim |-> Some(C[normalizedAddress].lastClaim)]

getTotalClaims(C) == Cardinality(DOMAIN C)

recordClaim(C, sparkAddress, t) ==
    LET normalizedAddress == toLowerCase(sparkAddress)
        known == normalizedAddress \in DOMAIN C
    IN  MapSet(C, normalizedAddress,
               [address |-> sparkAddress,
                lastClaim |-> t,
                claimCount |-> (IF known THEN C[normalizedAddress].claimCount ELSE 0) + 1,
                firstClaim |-> IF known THEN C[normalizedAddress].firstClaim ELSE t])

-----------------------------------------------------------------------------
(* POST /api/claim/token (api/server.js) and tokenService.claimToken.       *)

Address == "sp1PGss9qg4wq2ad7z3xk0m5t8v"
Slots == 1..MaxInFlight
TokenServiceImpls == {"mockFallback", "issuer"}

Idle == [pc |-> "idle", sdkFailed |-> FALSE]

MintOp(op, status) == [Op(op, "", FALSE, "null", 0, 0) EXCEPT !.status = status]

\* the request arrives: challenge headers are validated, then the handler
\* awaits initializeServices()
Receive(h, challengeOk) ==
    /\ handlers[h].pc = "idle"
    /\ started < MaxStarted
    /\ started' = started + 1
    /\ IF challengeOk
       THEN /\ handlers' = [handlers EXCEPT ![h].pc = "init"]
            /\ last' = MintOp("receive", 0)
       ELSE /\ handlers' = handlers
            /\ last' = MintOp("respond", 400)
    /\ UNCHANGED <<clock, globalMintTracker, claims, tokenServiceImpl,
                   mintsThisMinute, succeededThisMinute, botVars, tokenVars>>

\* initializeServices() has resolved: body validation, the global limit check,
\* then the call of tokenService.claimToken, which the handler awaits
CheckLimit(h, bodyOk) ==
    /\ handlers[h].pc = "init"
    /\ IF ~bodyOk
       THEN /\ handlers' = [handlers EXCEPT ![h] = Idle]
            /\ last' = MintOp("respond", 400)
            /\ UNCHANGED globalMintTracker
       ELSE LET e == isGlobalRateLimitExceeded(globalMintTracker, clock) IN
            IF e.ret
            THEN /\ globalMintTracker' = getGlobalMintStats(e.M, clock).M
                 /\ handlers' = [handlers EXCEPT ![h] = Idle]
                 /\ last' = MintOp("respond", 429)
            ELSE /\ globalMintTracker' = e.M
                 /\ handlers' = [handlers EXCEPT ![h].pc = "claiming"]
                 /\ last' = MintOp("claimToken", 0)
    /\ UNCHANGED <<clock, claims, tokenServiceImpl, started,
                   mintsThisMinute, succeededThisMinute, botVars, tokenVars>>

\* tokenService.claimToken settles.  sdkOk: mintTokens and transferTokens both
\* succeeded.  services/TokenService.js catches a failure and returns the result
\* of mockClaimToken; the issuer-wallet TokenService rethrows it.
claimTokenReturns(impl, sdkOk) == sdkOk \/ impl = "mockFallback"

ClaimSettles(h, sdkOk) ==
    /\ handlers[h].pc = "claiming"
    /\ IF claimTokenReturns(tokenServiceImpl, sdkOk)
       THEN \* await rateLimitService.recordClaim(sparkAddress)
            /\ claims' = recordClaim(claims, Address, clock)
            /\ handlers' = [handlers EXCEPT ![h] = [pc |-> "recording", sdkFailed |-> ~sdkOk]]
            /\ last' = MintOp("recordClaim", 0)
       ELSE \* catch (error): 500
            /\ claims' = claims
            /\ handlers' = [handlers EXCEPT ![h] = Idle]
            /\ last' = MintOp("respond", 500)
    /\ UNCHANGED <<clock, globalMintTracker, tokenServiceImpl, started,
                   mintsThisMinute, succeededThisMinute, botVars, tokenVars>>

\* recordClaim has resolved: rateLimitService.recordGlobalMint(); res.json(...)
RecordMint(h) ==
    /\ handlers[h].pc = "recording"
    /\ globalMintTracker' = recordGlobalMint(globalMintTracker, clock)
    /\ mintsThisMinute' = mintsThisMinute + 1
    /\ succeededThisMinute' =
            IF handlers[h].sdkFailed THEN succeededThisMinute ELSE succeededThisMinute + 1
    /\ handlers' = [handlers EXCEPT ![h] = Idle]
    /\ last' = MintOp("respond", 200)
    /\ UNCHANGED <<clock, claims, tokenServiceImpl, started, botVars, tokenVars>>

\* the clock of the claim-endpoint process advances
MintTick ==
    /\ clock < MaxClock
    /\ clock' = clock + 1
    /\ IF MinuteIndex(clock + 1) # MinuteIndex(clock)
       THEN mintsThisMinute' = 0 /\ succeededThisMinute' = 0
       ELSE UNCHANGED <<mintsThisMinute, succeededThisMinute>>
    /\ last' = MintOp("tick", 0)
    /\ UNCHANGED <<globalMintTracker, claims, handlers, tokenServiceImpl, started, botVars,
                   tokenVars>>

-----------------------------------------------------------------------------
(* TokenService (issuer wallet): initialization, blocklist, transaction     *)
(* queue and the retries of executeTokenClaim.                             *)

MaxCalls == 3
MaxTimers == 2
Calls == 1..MaxCalls

\* executeTokenClaim: const maxRetries = 3
claimMaxRetries == 3
\* retryTransaction: const maxRetries = 2
transactionMaxRetries == 2

BlockedAddress == "sp1pgssx93dcxfmn9ylggcvqpfljecwgx83t947mztzkelhgfrg0x3zvfhsc30547"
\* the address the modelled requests and the blocklist endpoints name: the one
\* the constructor blocklists, so that claimToken's blocklist test goes either
\* way as the endpoints remove and add it
TokenAddresses == {BlockedAddress}

\* the constructor
NewTokenService ==
    [isInitialized |-> FALSE,
     tokenId |-> None,
     blockedAddresses |-> {BlockedAddress},
     transactionQueue |-> <<>>,
     isProcessingTransaction |-> FALSE]

\* a request to POST /api/claim/token in flight: where its handler stands, and
\* the locals of the executeTokenClaim (retryCount) and of the retryTransaction
\* (attempt, lastError) it is in.  A handler
\* that has answered leaves its slot idle for the next request
IdleCall == [pc |-> "idle", sparkAddress |-> "", retryCount |-> 0, attempt |-> 0,
             lastError |-> ""]

\* history of the running transaction of a call: the executions of
\* executeTokenClaim so far, and the calls of the SDK function the current
\* retryTransaction has made
NoTries == [executions |-> 0, calls |-> 0]

NoHistory == [tries |-> [c \in Calls |-> NoTries]]

\* what issuerWallet.mintTokens / transferTokens settle with: a result, or an
\* error with one of these messages
ErrorMessages == {"Transaction pre-empted by existing transaction", "insufficient funds"}
Outcomes == {"ok"} \cup ErrorMessages

isTransactionConflictError(message) ==
    LET errorMessage == toLowerCase(message)
    IN  \/ includes(errorMessage, "transaction pre-empted")
        \/ includes(errorMessage, "existing transaction")
        \/ includes(errorMessage, "utxo")
        \/ includes(errorMessage, "already in progress")
        \/ includes(errorMessage, "conflicting transaction")

\* isTransactionConflictError on each message (it is stateless)
ConflictError == [m \in ErrorMessages |-> isTransactionConflictError(m)] @@ <<>>

\* retryTransaction's catch: isTransactionConflictError(error) && attempt < maxRetries
retryTransactionRetries(message, attempt) ==
    ConflictError[message] /\ attempt < transactionMaxRetries

\* executeTokenClaim's catch: isTransactionConflictError(error) && retryCount < maxRetries
executeTokenClaimRetries_OnceMore(message, retryCount) ==
    ConflictError[message] /\ retryCount <= claimMaxRetries

executeTokenClaimRetries(message, retryCount) ==
    ConflictError[message] /\ retryCount < claimMaxRetries

\* Q is the state of the TokenService and of the calls it serves
Tok == [tokenService |-> tokenService, claimCalls |-> claimCalls,
        timers |-> timers, history |-> history]

isAddressBlocked(TS, address) == address \in TS.blockedAddresses

addBlockedAddress(TS, address) == [TS EXCEPT !.blockedAddresses = @ \cup {address}]

\* Set.prototype.delete: true iff the element was there
removeBlockedAddress(TS, address) ==
    [ret |-> address \in TS.blockedAddresses,
     TS |-> [TS EXCEPT !.blockedAddresses = @ \ {address}]]

\* the calls whose queued function is running
Running == {"mint", "transfer"}
Executing(calls) == {c \in Calls : calls[c].pc \in Running}

\* the queued function starts: executeTokenClaim(sparkAddress) runs up to its
\* first await, the call of issuerWallet.mintTokens
StartTransaction(Q, c) ==
    [Q EXCEPT !.claimCalls[c].pc = "mint",
              !.claimCalls[c].retryCount = 0,
              !.claimCalls[c].attempt = 0,
              !.claimCalls[c].lastError = "",
              !.history.tries[c] = [executions |-> 1, calls |-> 1]]

processQueue_IgnoresFlag(Q) ==
    IF Len(Q.tokenService.transactionQueue) = 0
    THEN Q
    ELSE StartTransaction(
            [Q EXCEPT !.tokenService.isProcessingTransaction = TRUE,
                      !.tokenService.transactionQueue = Tail(@)],
            Head(Q.tokenService.transactionQueue))

processQueue_TakesNewest(Q) ==
    IF Q.tokenService.isProcessingTransaction \/ Len(Q.tokenService.transactionQueue) = 0
    THEN Q
    ELSE StartTransaction(
            [Q EXCEPT !.tokenService.isProcessingTransaction = TRUE,
                      !.tokenService.transactionQueue = SubSeq(@, 1, Len(@) - 1)],
            Q.tokenService.transactionQueue[Len(Q.tokenService.transactionQueue)])

processQueue(Q) ==
    IF Q.tokenService.isProcessingTransaction \/ Len(Q.tokenService.transactionQueue) = 0
    THEN Q
    ELSE StartTransaction(
            [Q EXCEPT !.tokenService.isProcessingTransaction = TRUE,
                      !.tokenService.transactionQueue = Tail(@)],
            Head(Q.tokenService.transactionQueue))

queueTransaction(Q, c) ==
    processQueue([Q EXCEPT !.tokenService.transactionQueue = Append(@, c),
                           !.claimCalls[c].pc = "queued"])

\* claimToken throws: the handler answers 500 and its slot is free again
Throws(Q, c) == [Q EXCEPT !.claimCalls[c] = IdleCall]

claimToken(Q, c) ==
    IF ~Q.tokenService.isInitialized THEN Throws(Q, c)
    ELSE IF Q.tokenService.tokenId = None THEN Throws(Q, c)
    ELSE IF isAddressBlocked(Q.tokenService, Q.claimCalls[c].sparkAddress)
    THEN Throws(Q, c)
    ELSE queueTransaction(Q, c)

\* processQueue after `await fn()`: resolve or reject, then the finally block;
\* the handler answers and its slot is free again
Settled(Q, c) ==
    [Q EXCEPT !.claimCalls[c] = IdleCall,
              !.history.tries[c] = NoTries,
              !.tokenService.isProcessingTransaction = FALSE,
              !.timers = @ + 1]

\* an SDK call of call c failed with this message: retryTransaction's catch,
\* then executeTokenClaim's.  A back-off delay only postpones the call that
\* follows it, so the step ends with that call made
Caught(Q, c, message) ==
    LET call == Q.claimCalls[c] IN
    IF retryTransactionRetries(message, call.attempt)
    THEN [Q EXCEPT !.claimCalls[c].attempt = @ + 1,
                   !.claimCalls[c].lastError = message,
                   !.history.tries[c].calls = @ + 1]
    ELSE IF executeTokenClaimRetries(message, call.retryCount)
    THEN [Q EXCEPT !.claimCalls[c].pc = "mint",
                   !.claimCalls[c].retryCount = @ + 1,
                   !.claimCalls[c].attempt = 0,
                   !.claimCalls[c].lastError = "",
                   !.history.tries[c] = [executions |-> @.executions + 1, calls |-> 1]]
    ELSE Settled(Q, c)

InstallTok(Q) ==
    /\ tokenService' = Q.tokenService
    /\ claimCalls' = Q.claimCalls
    /\ timers' = Q.timers
    /\ history' = Q.history

\* what an operation of the token service did: the call it belongs to (k), the
\* HTTP status its handler answered with if it did, the call whose transaction
\* it started (next), 0 if none, and the message of the error the SDK call it
\* handled failed with (ruleTriggered), "null" if there is none
TokenOp(op, c, status, startedCall) ==
    [Op(op, "", FALSE, "null", 0, c) EXCEPT !.status = status, !.next = startedCall]

SdkFailed(op, c, status, message) ==
    [TokenOp(op, c, status, 0) EXCEPT !.ruleTriggered = message]

\* the call whose transaction started going from Q to R, 0 if none did
StartedBy(Q, R) ==
    IF Executing(R.claimCalls) \ Executing(Q.claimCalls) = {} THEN 0
    ELSE CHOOSE c \in Executing(R.claimCalls) \ Executing(Q.claimCalls) : TRUE

\* the handler of call c, past `await initializeServices()`: the body is valid
\* and the global limit is not exceeded, so it calls tokenService.claimToken
CallClaimToken(Q, c) ==
    /\ InstallTok(claimToken(Q, c))
    /\ last' = TokenOp("claimToken", c,
                       IF claimToken(Q, c).claimCalls[c].pc = "idle" THEN 500 ELSE 0,
                       StartedBy(Q, claimToken(Q, c)))

\* POST /api/claim/token arrives (challenge passed), no faster than the re-poll
\* timers fire: the handler calls initializeServices(), which starts
\* tokenService.initialize() unless the module's isInitialized is set
Arrive(c, sparkAddress) ==
    /\ claimCalls[c].pc = "idle"
    /\ timers < MaxTimers
    /\ IF ~isInitialized
       THEN /\ claimCalls' = [claimCalls EXCEPT ![c].pc = "initializing",
                                                ![c].sparkAddress = sparkAddress]
            /\ last' = TokenOp("initialize", c, 0, 0)
            /\ UNCHANGED <<tokenService, timers, history>>
       ELSE CallClaimToken([Tok EXCEPT !.claimCalls[c].sparkAddress = sparkAddress], c)
    /\ UNCHANGED <<isInitialized, claimLog, botVars, mintVars>>

\* the tokenService.initialize() this call awaits settles
InitializeSettles(c, ok) ==
    /\ claimCalls[c].pc = "initializing"
    /\ IF ok
       THEN /\ isInitialized' = TRUE
            /\ CallClaimToken([Tok EXCEPT !.tokenService.isInitialized = TRUE,
                                          !.tokenService.tokenId = Some("TOKEN_ID")], c)
       ELSE /\ claimCalls' = [claimCalls EXCEPT ![c] = IdleCall]
            /\ last' = TokenOp("initialize", c, 500, 0)
            /\ UNCHANGED <<tokenService, isInitialized, timers, history>>
    /\ UNCHANGED <<claimLog, botVars, mintVars>>

\* issuerWallet.mintTokens settles; when it succeeds the function waits 3 s and
\* calls issuerWallet.transferTokens
MintTokensSettles(c, outcome) ==
    /\ claimCalls[c].pc = "mint"
    /\ IF outcome = "ok"
       THEN /\ claimCalls' = [claimCalls EXCEPT ![c].pc = "transfer", ![c].attempt = 0,
                                                ![c].lastError = ""]
            /\ history' = [history EXCEPT !.tries[c].calls = 1]
            /\ UNCHANGED <<tokenService, timers>>
            /\ last' = TokenOp("transferTokens", c, 0, 0)
       ELSE /\ InstallTok(Caught(Tok, c, outcome))
            /\ last' = SdkFailed("mintTokens", c,
                        IF Caught(Tok, c, outcome).claimCalls[c].pc = "idle"
                        THEN 500 ELSE 0, outcome)
    /\ UNCHANGED <<isInitialized, claimLog, botVars, mintVars>>

\* issuerWallet.transferTokens settles; when it succeeds the queued promise
\* resolves and the handler answers 200 (what it records on the RateLimitService
\* on the way is RecordMint's subject)
TransferTokensSettles(c, outcome) ==
    /\ claimCalls[c].pc = "transfer"
    /\ IF outcome = "ok"
       THEN /\ InstallTok(Settled(Tok, c))
            /\ last' = TokenOp("respond", c, 200, 0)
       ELSE /\ InstallTok(Caught(Tok, c, outcome))
            /\ last' = SdkFailed(IF Caught(Tok, c, outcome).claimCalls[c].pc = "mint"
                                 THEN "mintTokens" ELSE "transferTokens", c,
                        IF Caught(Tok, c, outcome).claimCalls[c].pc = "idle"
                        THEN 500 ELSE 0, outcome)
    /\ UNCHANGED <<isInitialized, claimLog, botVars, mintVars>>

\* a setTimeout(() => this.processQueue(), 100) fires
TimerFires ==
    LET Q == processQueue([Tok EXCEPT !.timers = @ - 1]) IN
    /\ timers > 0
    /\ InstallTok(Q)
    /\ last' = TokenOp("processQueue", 0, 0, StartedBy(Tok, Q))
    /\ UNCHANGED <<isInitialized, claimLog, botVars, mintVars>>

\* POST /api/blocklist/add with the admin secret, past its initializeServices()
AddBlocked(address) ==
    /\ isInitialized
    /\ tokenService' = addBlockedAddress(tokenService, address)
    /\ last' = TokenOp("addBlockedAddress", 0, 200, 0)
    /\ UNCHANGED <<isInitialized, claimCalls, timers, history, claimLog, botVars, mintVars>>

\* POST /api/blocklist/remove with the admin secret, past its initializeServices()
RemoveBlocked(address) ==
    /\ isInitialized
    /\ tokenService' = removeBlockedAddress(tokenService, address).TS
    /\ last' = TokenOp("removeBlockedAddress", 0,
                       IF removeBlockedAddress(tokenService, address).ret THEN 200 ELSE 404, 0)
    /\ UNCHANGED <<isInitialized, claimCalls, timers, history, claimLog, botVars, mintVars>>

-----------------------------------------------------------------------------
(* Specifications                                                           *)

BotInit ==
    /\ now = 0
    /\ ipRequestTracker = <<>>
    /\ suspiciousIPs = {}
    /\ blockedIPs = {}
    /\ burst = NoBurst
    /\ admitted = [ip \in IPs |-> <<>>]

MintIdle ==
    /\ clock = StartClock
    /\ globalMintTracker = <<>>
    /\ claims = <<>>
    /\ handlers = [h \in Slots |-> Idle]
    /\ tokenServiceImpl = "issuer"
    /\ started = 0
    /\ mintsThisMinute = 0
    /\ succeededThisMinute = 0

\* the TokenService as constructed, no request in hand
TokenIdle ==
    /\ claimLog = <<>>
    /\ isInitialized = FALSE
    /\ tokenService = NewTokenService
    /\ claimCalls = [c \in Calls |-> IdleCall]
    /\ timers = 0
    /\ history = NoHistory

Init ==
    /\ BotInit
    /\ MintIdle
    /\ TokenIdle
    /\ last = Op("init", "", FALSE, "null", 0, 0)

Next ==
    \/ \E ip \in IPs, name \in RequestNames : BotBlockingMiddleware(ip, name)
    \/ \E ip \in IPs : UnblockIP(ip)
    \/ GetStats
    \/ Cleanup
    \/ Tick

Spec == Init /\ [][Next]_vars

\* the claim endpoint starts fresh, or PreMinted successful claims into the
\* current minute; those were made for addresses no later request uses, and
\* claims shows the entries of the addresses the requests do use
MintInit ==
    /\ BotInit
    /\ TokenIdle
    /\ last = MintOp("init", 0)
    /\ clock = StartClock
    /\ handlers = [h \in Slots |-> Idle]
    /\ tokenServiceImpl \in TokenServiceImpls
    /\ started = 0
    /\ \E n \in {0, PreMinted} :
        /\ mintsThisMinute = n
        /\ succeededThisMinute = n
        /\ globalMintTracker =
                IF n = 0 THEN <<>>
                ELSE MapSet(<<>>, getCurrentMinuteKey(StartClock),
                            [count |-> n, timestamp |-> StartClock])
        /\ claims = <<>>

\* The minute key over the calendar: mints recorded on the limiter at the
\* instants around the turn of an hour, a day, a month and a year.
MaxKeyMints == 2
MINUTES_PER_DAY == MINUTES_PER_HOUR * HOURS_PER_DAY
\* 00:59, 01:00 and 01:59 on 1 January; 23:59 that day and 00:00, 00:59 the
\* next; 23:59 on 31 January and 00:00, 00:59 on 1 February; 23:59 on
\* 31 December and 00:00, 00:59 on 1 January of the next year
KeyMinutes ==
    {MINUTES_PER_HOUR - 1, MINUTES_PER_HOUR, 2 * MINUTES_PER_HOUR - 1}
    \cup UNION {{d * MINUTES_PER_DAY - 1, d * MINUTES_PER_DAY,
                 d * MINUTES_PER_DAY + MINUTES_PER_HOUR - 1} :
                    d \in {1, MonthStart[2], DAYS_PER_YEAR}}
\* the first and the last instant of each of those minutes
KeyInstants ==
    UNION {{m * TICKS_PER_MINUTE, (m + 1) * TICKS_PER_MINUTE - 1} : m \in KeyMinutes}

KeyInit ==
    /\ BotInit
    /\ TokenIdle
    /\ last = MintOp("init", 0)
    /\ clock \in KeyInstants
    /\ globalMintTracker = <<>>
    /\ claims = <<>>
    /\ handlers = [h \in Slots |-> Idle]
    /\ tokenServiceImpl = "issuer"
    /\ started = 0
    /\ mintsThisMinute = 0
    /\ succeededThisMinute = 0

\* rateLimitService.recordGlobalMint()
KeyRecordGlobalMint ==
    /\ started < MaxKeyMints
    /\ started' = started + 1
    /\ globalMintTracker' = recordGlobalMint(globalMintTracker, clock)
    /\ mintsThisMinute' = mintsThisMinute + 1
    /\ last' = MintOp("recordGlobalMint", 0)
    /\ UNCHANGED <<clock, claims, handlers, tokenServiceImpl, succeededThisMinute,
                   botVars, tokenVars>>

\* time passes, to a later one of the instants
KeyAdvance(t) ==
    /\ t > clock
    /\ clock' = t
    /\ mintsThisMinute' = IF MinuteIndex(t) # MinuteIndex(clock) THEN 0 ELSE mintsThisMinute
    /\ last' = MintOp("tick", 0)
    /\ UNCHANGED <<globalMintTracker, claims, handlers, tokenServiceImpl, started,
                   succeededThisMinute, botVars, tokenVars>>

KeyNext ==
    \/ KeyRecordGlobalMint
    \/ \E t \in KeyInstants : KeyAdvance(t)

SpecKey == KeyInit /\ [][KeyNext]_vars

\* The claim records: recordClaim called for addresses written in different
\* cases, on either side of midnight.
MaxRecorded == 3
\* one address in three spellings, and a second address
ClaimAddresses == {"sp1qXy", "SP1QXY", "sp1qxy", "sp1zk"}
NeverRecorded == "sp1NoClaim"
\* the last two instants of a day and the first two of the next
ClaimInstants ==
    LET midnight == MINUTES_PER_DAY * TICKS_PER_MINUTE
    IN  {midnight - 2, midnight - 1, midnight, midnight + 1}

ClaimsInit ==
    /\ BotInit
    /\ TokenIdle
    /\ last = MintOp("init", 0)
    /\ clock \in ClaimInstants
    /\ globalMintTracker = <<>>
    /\ claims = <<>>
    /\ handlers = [h \in Slots |-> Idle]
    /\ tokenServiceImpl = "issuer"
    /\ started = 0
    /\ mintsThisMinute = 0
    /\ succeededThisMinute = 0

\* rateLimitService.recordClaim(sparkAddress)
ClaimsRecord(sparkAddress) ==
    /\ Len(claimLog) < MaxRecorded
    /\ claims' = recordClaim(claims, sparkAddress, clock)
    /\ claimLog' = Append(claimLog, <<sparkAddress, clock>>)
    /\ last' = MintOp("recordClaim", 0)
    /\ UNCHANGED <<clock, globalMintTracker, handlers, tokenServiceImpl, started,
                   mintsThisMinute, succeededThisMinute, botVars,
                   isInitialized, tokenService, claimCalls, timers, history>>

\* time passes, to a later one of the instants
ClaimsAdvance(t) ==
    /\ t > clock
    /\ clock' = t
    /\ last' = MintOp("tick", 0)
    /\ UNCHANGED <<globalMintTracker, claims, handlers, tokenServiceImpl, started,
                   mintsThisMinute, succeededThisMinute, botVars, tokenVars>>

ClaimsNext ==
    \/ \E sparkAddress \in ClaimAddresses : ClaimsRecord(sparkAddress)
    \/ \E t \in ClaimInstants : ClaimsAdvance(t)

SpecClaims == ClaimsInit /\ [][ClaimsNext]_vars

\* the service as it runs: the cleanup interval keeps firing and time passes
SpecLive == Spec /\ WF_vars(Cleanup) /\ WF_vars(Tick)

MintNext ==
    \/ \E h \in Slots, challengeOk \in BOOLEAN : Receive(h, challengeOk)
    \/ \E h \in Slots, bodyOk \in BOOLEAN : CheckLimit(h, bodyOk)
    \/ \E h \in Slots, sdkOk \in BOOLEAN : ClaimSettles(h, sdkOk)
    \/ \E h \in Slots : RecordMint(h)
    \/ MintTick

SpecMint == MintInit /\ [][MintNext]_vars

TokenInit ==
    /\ BotInit
    /\ MintIdle
    /\ TokenIdle
    /\ last = TokenOp("init", 0, 0, 0)

\* the SDK call in flight settles
SdkCallSettles ==
    \E c \in Calls : \E outcome \in Outcomes :
        MintTokensSettles(c, outcome) \/ TransferTokensSettles(c, outcome)

TokenNext ==
    \/ \E c \in Calls : \E sparkAddress \in TokenAddresses : Arrive(c, sparkAddress)
    \/ \E c \in Calls : \E ok \in BOOLEAN : InitializeSettles(c, ok)
    \/ SdkCallSettles
    \/ TimerFires
    \/ AddBlocked(BlockedAddress)
    \/ RemoveBlocked(BlockedAddress)

SpecToken == TokenInit /\ [][TokenNext]_vars

\* the SDK calls settle and the re-poll timers fire
SpecTokenLive == SpecToken /\ WF_vars(TimerFires) /\ WF_vars(SdkCallSettles)

-----------------------------------------------------------------------------
(* Properties of the BotBlockingService (checked under Spec).               *)

\* the IP's record, or the record an unknown IP is given
Record(ip) == IF ip \in DOMAIN ipRequestTracker THEN ipRequestTracker[ip] ELSE NewIpData

\* the IP has a block whose blockedUntil lies in the future
ActiveBlock(ip) ==
    /\ ip \in DOMAIN ipRequestTracker
    /\ ipRequestTracker[ip].blocked
    /\ ipRequestTracker[ip].blockedUntil # None
    /\ now < Val(ipRequestTracker[ip].blockedUntil)

\* the IP has a block whose blockedUntil has been reached
ExpiredBlock(ip) ==
    /\ ip \in DOMAIN ipRequestTracker
    /\ ipRequestTracker[ip].blocked
    /\ ipRequestTracker[ip].blockedUntil # None
    /\ now >= Val(ipRequestTracker[ip].blockedUntil)

\* at least MAX_REQUESTS_PER_WINDOW recorded timestamps within the window ending now
OverLimit(ip) ==
    Cardinality({i \in DOMAIN Record(ip).requests :
                    now - Record(ip).requests[i] <= TIME_WINDOW_MS}) >= MAX_REQUESTS_PER_WINDOW

\* C1: from an IP with no record, each of the first MAX_REQUESTS_PER_WINDOW
\* well-formed requests made within one window is admitted; the next one inside
\* that window is denied with RATE_LIMIT and installs a block: the record is
\* blocked with blockedUntil = now + BLOCK_DURATION_MS and the IP is in blockedIPs.
C1_WindowBoundary ==
    (last.op = "checkRequest" /\ last.k >= 1) =>
        /\ (last.k <= MAX_REQUESTS_PER_WINDOW =>
                /\ ~last.blocked
                /\ last.ruleTriggered = "null")
        /\ (last.k = MAX_REQUESTS_PER_WINDOW + 1 =>
                /\ last.blocked
                /\ last.ruleTriggered = "RATE_LIMIT"
                /\ last.ip \in DOMAIN ipRequestTracker
                /\ ipRequestTracker[last.ip].blocked
                /\ ipRequestTracker[last.ip].blockedUntil = Some(now + BLOCK_DURATION_MS)
                /\ last.ip \in blockedIPs)

C1_Witness ==
    /\ last.op = "checkRequest"
    /\ last.k = MAX_REQUESTS_PER_WINDOW + 1
    /\ last.ruleTriggered = "RATE_LIMIT"
    /\ last.ip \in blockedIPs
    /\ Len(ipRequestTracker[last.ip].requests) = MAX_REQUESTS_PER_WINDOW

\* C3: a request from a blocked IP before blockedUntil is denied with IP_BLOCKED;
\* a request at or after blockedUntil is not: the same checkRequest clears the
\* block (blocked = false, blockedUntil cleared, IP out of blockedIPs) and a
\* request that neither heuristic rejects is admitted.  Neither the passing of
\* time nor the cleanup sweep ends a block: only the access does.
C3_BlockExpiry ==
    [][\A ip \in IPs :
        (ip \in DOMAIN ipRequestTracker /\ ipRequestTracker[ip].blocked) =>
            /\ (last'.op = "checkRequest" /\ last'.ip = ip /\ ActiveBlock(ip)) =>
                    /\ last'.blocked
                    /\ last'.ruleTriggered = "IP_BLOCKED"
                    /\ ipRequestTracker'[ip].blocked
                    /\ ip \in blockedIPs'
            /\ (last'.op = "checkRequest" /\ last'.ip = ip /\ ExpiredBlock(ip)) =>
                    /\ last'.ruleTriggered \in {"null", "BOT_USER_AGENT", "SUSPICIOUS_HEADERS"}
                    /\ ~ipRequestTracker'[ip].blocked
                    /\ ipRequestTracker'[ip].blockedUntil = None
                    /\ ip \notin blockedIPs'
            /\ (last'.op \in {"tick", "cleanup"}) =>
                    /\ ip \in DOMAIN ipRequestTracker'
                    /\ ipRequestTracker'[ip].blocked
                    /\ ipRequestTracker'[ip].blockedUntil = ipRequestTracker[ip].blockedUntil
      ]_vars

\* a request admitted one second after the block's end, the first access since
C3_Witness ==
    /\ last.op = "checkRequest"
    /\ ~last.blocked
    /\ last.ip \in DOMAIN ipRequestTracker
    /\ LET r == ipRequestTracker[last.ip] IN
        /\ ~r.blocked
        /\ r.blockedUntil = None
        /\ r.blockReason = Some("RATE_LIMIT_EXCEEDED")
        /\ r.blockedAt # None
        /\ now = Val(r.blockedAt) + BLOCK_DURATION_MS + MS_PER_SECOND
        /\ r.requests = <<now>>
    /\ last.ip \notin blockedIPs

\* the user agents of the published test scenarios that the signature list or
\* the empty check rejects: curl/7.68.0, python-requests/2.25.1,
\* PostmanRuntime/7.28.4 and a missing User-Agent
BotLikeRequests == {"curl", "python", "postman", "noUA"}

\* C4 as stated: a request with an empty or missing User-Agent, or one matching a
\* bot signature, is denied with BOT_USER_AGENT in every reachable state.
C4_BotAlwaysBotUserAgent ==
    \A ip \in IPs, name \in BotLikeRequests :
        LET d == checkRequest(Svc, ip, name, now)
        IN  d.blocked /\ d.ruleTriggered = "BOT_USER_AGENT"

\* C4: a request with an empty or missing User-Agent, or one matching a bot
\* signature (in any letter case), is always denied; the rule is BOT_USER_AGENT
\* whatever the IP's request count, unless the IP has an active block, and then
\* IP_BLOCKED.
C4_BotDenied ==
    \A ip \in IPs, name \in BotLikeRequests :
        LET d == checkRequest(Svc, ip, name, now)
        IN  /\ d.blocked
            /\ d.ruleTriggered = IF ActiveBlock(ip) THEN "IP_BLOCKED" ELSE "BOT_USER_AGENT"

\* a bot-like request denied as such on an IP whose earlier block has run out
C4_Witness ==
    /\ last.op = "checkRequest"
    /\ last.ruleTriggered = "BOT_USER_AGENT"
    /\ last.ip \in DOMAIN ipRequestTracker
    /\ ipRequestTracker[last.ip].blockedAt # None
    /\ ~ipRequestTracker[last.ip].blocked

\* requests whose user agent the bot rule lets through
NotBotRequests == {name \in RequestNames : ~Classified[name].bot}

Present(headers, k) == HasKey(headers, k)
NonEmpty(headers, k) == HasKey(headers, k) /\ headers[k] # ""

\* C5 as stated: for an IP that is not blocked and a user agent the bot rule
\* lets through, SUSPICIOUS_HEADERS is returned exactly when one of Accept,
\* Accept-Language, Accept-Encoding is absent, or all three are present, the
\* user agent contains Mozilla, no Referer is present and Accept is */*.
C5_HeaderHeuristicPresence ==
    \A ip \in IPs, name \in NotBotRequests :
        ~ActiveBlock(ip) =>
            LET h == Headers(name)
                d == checkRequest(Svc, ip, name, now)
            IN  (d.ruleTriggered = "SUSPICIOUS_HEADERS") <=>
                    \/ ~Present(h, "accept")
                    \/ ~Present(h, "accept-language")
                    \/ ~Present(h, "accept-encoding")
                    \/ /\ includes(UserAgentOf(name), "Mozilla")
                       /\ ~Present(h, "referer")
                       /\ h["accept"] = "*/*"

\* C5: the same with a header of empty value counted as absent: the rule fires
\* exactly when one of the three headers is absent or empty, or all three are
\* non-empty, the user agent contains Mozilla, Referer is absent or empty and
\* Accept is */*.  A browser's full header set with a Referer is not denied.
C5_HeaderHeuristic ==
    \A ip \in IPs, name \in NotBotRequests :
        ~ActiveBlock(ip) =>
            LET h == Headers(name)
                d == checkRequest(Svc, ip, name, now)
            IN  /\ (d.ruleTriggered = "SUSPICIOUS_HEADERS") <=>
                        \/ ~NonEmpty(h, "accept")
                        \/ ~NonEmpty(h, "accept-language")
                        \/ ~NonEmpty(h, "accept-encoding")
                        \/ /\ includes(UserAgentOf(name), "Mozilla")
                           /\ ~NonEmpty(h, "referer")
                           /\ h["accept"] = "*/*"
                /\ name = "browser" => d.ruleTriggered # "SUSPICIOUS_HEADERS"

C5_Witness ==
    /\ last.op = "checkRequest"
    /\ last.blocked
    /\ last.ruleTriggered = "SUSPICIOUS_HEADERS"
    /\ last.ip \in suspiciousIPs

\* the block flag and expiry of the IP's record
BlockFields(ip) == <<Record(ip).blocked, Record(ip).blockedUntil>>

HeuristicDenial(ip) ==
    /\ last'.op = "checkRequest"
    /\ last'.ip = ip
    /\ last'.ruleTriggered \in {"BOT_USER_AGENT", "SUSPICIOUS_HEADERS"}

\* C6 as stated: a BOT_USER_AGENT or SUSPICIOUS_HEADERS denial adds the IP to
\* the suspicious set and leaves the record's blocked flag and blockedUntil,
\* the blocked set and the recorded timestamps unchanged.
C6_HeuristicDenialChangesNothing ==
    [][\A ip \in IPs :
        HeuristicDenial(ip) =>
            /\ ip \in suspiciousIPs'
            /\ BlockFields(ip)' = BlockFields(ip)
            /\ blockedIPs' = blockedIPs
            /\ Record(ip).requests' = Record(ip).requests
      ]_vars

\* C6: a BOT_USER_AGENT or SUSPICIOUS_HEADERS denial adds the IP to the
\* suspicious set, never installs a block and leaves the recorded timestamps
\* unchanged; the block fields and the blocked set change only when the IP's
\* block had run out, which the same call then clears.  A following well-formed
\* request under the rate limit is admitted, and a block is installed by a
\* RATE_LIMIT denial only.
C6_HeuristicDenialNoBlock ==
    [][\A ip \in IPs :
        /\ HeuristicDenial(ip) =>
            /\ ip \in suspiciousIPs'
            /\ Record(ip).requests' = Record(ip).requests
            /\ IF ExpiredBlock(ip)
               THEN BlockFields(ip)' = <<FALSE, None>> /\ blockedIPs' = blockedIPs \ {ip}
               ELSE BlockFields(ip)' = BlockFields(ip) /\ blockedIPs' = blockedIPs
            /\ ~Record(ip).blocked'
            /\ ip \notin blockedIPs'
            /\ ~OverLimit(ip)' => ~checkRequest(Svc', ip, "browser", now').blocked
        /\ (Record(ip).blocked' /\ ~Record(ip).blocked) =>
            /\ last'.op = "checkRequest"
            /\ last'.ip = ip
            /\ last'.ruleTriggered = "RATE_LIMIT"
      ]_vars

\* a bot denial of an IP that has admitted requests on record and no block
C6_Witness ==
    /\ last.op = "checkRequest"
    /\ last.ruleTriggered = "BOT_USER_AGENT"
    /\ last.ip \in suspiciousIPs
    /\ last.ip \notin blockedIPs
    /\ Record(last.ip).requests # <<>>
    /\ ~OverLimit(last.ip)
    /\ ~checkRequest(Svc, last.ip, "browser", now).blocked

\* C7: checkRequest evaluates block status, bot user agent, suspicious headers
\* and rate limit in that order and returns at the first that fires; a bot-like
\* request from an IP over the limit gets BOT_USER_AGENT and no block, and a
\* request from an actively blocked IP gets IP_BLOCKED whatever it carries.
C7_EvaluationOrder ==
    \A ip \in IPs, name \in RequestNames :
        LET d == checkRequest(Svc, ip, name, now)
        IN  /\ d.ruleTriggered =
                    IF ActiveBlock(ip) THEN "IP_BLOCKED"
                    ELSE IF Classified[name].bot THEN "BOT_USER_AGENT"
                    ELSE IF Classified[name].suspicious THEN "SUSPICIOUS_HEADERS"
                    ELSE IF OverLimit(ip) THEN "RATE_LIMIT"
                    ELSE "null"
            /\ d.blocked = (d.ruleTriggered # "null")
            /\ (Classified[name].bot /\ OverLimit(ip) /\ ~ActiveBlock(ip)) =>
                    /\ ip \notin d.S.blockedIPs
                    /\ ip \in DOMAIN d.S.ipRequestTracker
                    /\ ~d.S.ipRequestTracker[ip].blocked

\* a bot-like request from an IP over the limit was denied and no block installed
C7_Witness ==
    /\ last.op = "checkRequest"
    /\ last.ruleTriggered = "BOT_USER_AGENT"
    /\ OverLimit(last.ip)
    /\ ~Record(last.ip).blocked
    /\ last.ip \notin blockedIPs

\* C10: the cleanup sweep never removes the record of an actively blocked IP,
\* never changes its blocked flag or blockedUntil and never takes it out of
\* blockedIPs, however old its timestamps are; a request from it after the
\* sweep is still denied with IP_BLOCKED.
C10_CleanupPreservesBlocks ==
    [][last'.op = "cleanup" =>
        \A ip \in IPs :
            ActiveBlock(ip) =>
                /\ ip \in DOMAIN ipRequestTracker'
                /\ BlockFields(ip)' = BlockFields(ip)
                /\ ip \in blockedIPs'
                /\ \A name \in RequestNames :
                        checkRequest(Svc', ip, name, now').ruleTriggered = "IP_BLOCKED"
      ]_vars

\* a sweep has emptied the timestamps of an actively blocked IP and kept the record
C10_Witness ==
    /\ last.op = "cleanup"
    /\ \E ip \in IPs :
        /\ ActiveBlock(ip)
        /\ ipRequestTracker[ip].requests = <<>>
        /\ ip \in blockedIPs

-----------------------------------------------------------------------------
(* Properties of the global mint limiter and the claim handler (checked     *)
(* under SpecMint).                                                         *)

\* count of the bucket of the calendar minute the clock is in
CurrentBucketCount ==
    IF getCurrentMinuteKey(clock) \in DOMAIN globalMintTracker
    THEN globalMintTracker[getCurrentMinuteKey(clock)].count
    ELSE 0

\* C2: under every interleaving of concurrent claim requests, at most
\* GLOBAL_TOKENS_PER_MINUTE claims complete in one calendar minute.
C2_GlobalMintCap ==
    /\ mintsThisMinute <= GLOBAL_TOKENS_PER_MINUTE
    /\ CurrentBucketCount <= GLOBAL_TOKENS_PER_MINUTE

\* C8: a claim whose SDK mint or transfer failed never reaches recordGlobalMint,
\* so the current minute's count is the number of claims that succeeded in it.
C8_FailedMintNotCounted ==
    /\ \A h \in Slots : handlers[h].pc = "recording" => ~handlers[h].sdkFailed
    /\ CurrentBucketCount = succeededThisMinute

\* C9: the limiter counts per calendar minute: the count it reports and tests
\* is the number of mints recorded since the clock entered the current minute,
\* the limit is reached at GLOBAL_TOKENS_PER_MINUTE of them, and when the clock
\* enters the next minute the count starts at zero whatever the previous
\* minute's total.
C9_BucketRollover ==
    LET stats == getGlobalMintStats(globalMintTracker, clock)
        exceeded == isGlobalRateLimitExceeded(globalMintTracker, clock)
    IN  /\ stats.tokensThisMinute = mintsThisMinute
        /\ exceeded.ret = (mintsThisMinute >= GLOBAL_TOKENS_PER_MINUTE)
        /\ stats.isLimitExceeded = exceeded.ret
        /\ (last.op = "tick" /\ clock % TICKS_PER_MINUTE = 0) =>
                stats.tokensThisMinute = 0 /\ ~exceeded.ret

\* a request passed the limit check in a new minute while the bucket of an
\* earlier minute, filled to the limit, is still tracked
C9_Witness ==
    /\ last.op = "claimToken"
    /\ mintsThisMinute = 0
    /\ \E key \in DOMAIN globalMintTracker :
        /\ key # getCurrentMinuteKey(clock)
        /\ globalMintTracker[key].count >= GLOBAL_TOKENS_PER_MINUTE

-----------------------------------------------------------------------------
(* Further properties of the BotBlockingService (checked under Spec).       *)

\* C11: after a cleanup sweep at time t every record still tracked belongs to
\* an IP with an active block at t or with a request timestamp newer than
\* t - CLEANUP_KEEP_FACTOR x window.
C11_CleanupRemovesInactive ==
    last.op = "cleanup" =>
        \A ip \in DOMAIN ipRequestTracker :
            \/ ActiveBlock(ip)
            \/ \E i \in DOMAIN ipRequestTracker[ip].requests :
                    ipRequestTracker[ip].requests[i] >
                        now - TIME_WINDOW_MS * CLEANUP_KEEP_FACTOR

\* an IP the service has never seen
UnseenIP == "198.51.100.9"

\* C12: unblockIP clears the record's block fields (blocked = false, blockedUntil,
\* blockReason and blockedAt cleared) and takes the IP out of blockedIPs; it
\* returns true for a blocked, an unblocked and a never-seen IP alike, and a
\* second call in a row returns the same and leaves the state of the first.
C12_UnblockIdempotent ==
    \A ip \in IPs \cup {UnseenIP} :
        LET S1 == unblockIP(Svc, ip)
            S2 == unblockIP(S1, ip)
        IN  /\ unblockIPReturns(Svc, ip) = TRUE
            /\ unblockIPReturns(S1, ip) = unblockIPReturns(Svc, ip)
            /\ S2 = S1
            /\ ip \notin S1.blockedIPs
            /\ DOMAIN S1.ipRequestTracker = DOMAIN ipRequestTracker
            /\ ip \in DOMAIN ipRequestTracker =>
                    S1.ipRequestTracker[ip] =
                        [NewIpData EXCEPT !.requests = ipRequestTracker[ip].requests]
            /\ ip \notin DOMAIN ipRequestTracker =>
                    S1.ipRequestTracker = ipRequestTracker

\* the admin has unblocked an IP that the rate limit had blocked in its current run
C12_Witness ==
    /\ last.op = "unblockIP"
    /\ burst[last.ip] # None
    /\ burst[last.ip][2] = MAX_REQUESTS_PER_WINDOW + 1
    /\ last.ip \in DOMAIN ipRequestTracker
    /\ ipRequestTracker[last.ip] =
            [NewIpData EXCEPT !.requests = ipRequestTracker[last.ip].requests]
    /\ last.ip \notin blockedIPs

\* admissions the IP's window still has room for
Room(ip) ==
    MAX_REQUESTS_PER_WINDOW -
        Cardinality({i \in DOMAIN Record(ip).requests :
                        now - Record(ip).requests[i] <= TIME_WINDOW_MS})

\* C13: requests of one IP that are in flight together are decided one whole
\* checkRequest after another (the method has no suspension point), in any
\* order: a request that neither heuristic rejects, from an IP without an
\* active block, is admitted exactly when the window has room, and each
\* admission takes one unit of room; the first request without room is denied
\* and installs the block.  So of the requests in flight exactly as many as
\* there was room for are admitted.
C13_ConcurrentSameIP ==
    [][\A ip \in IPs :
        (/\ last'.op = "checkRequest"
         /\ last'.ip = ip
         /\ ~ActiveBlock(ip)
         /\ last'.ruleTriggered \in {"null", "RATE_LIMIT"}) =>
            /\ (~last'.blocked) <=> (Room(ip) > 0)
            /\ ~last'.blocked => Room(ip)' = Room(ip) - 1
            /\ last'.blocked =>
                    /\ Room(ip)' = Room(ip)
                    /\ ActiveBlock(ip)'
      ]_vars

\* MAX_REQUESTS_PER_WINDOW requests of one instant were admitted and the next
\* one of the same instant denied
C13_Witness ==
    /\ last.op = "checkRequest"
    /\ last.ruleTriggered = "RATE_LIMIT"
    /\ Len(Record(last.ip).requests) = MAX_REQUESTS_PER_WINDOW
    /\ \A i \in DOMAIN Record(last.ip).requests : Record(last.ip).requests[i] = now
    /\ Room(last.ip) = 0

-----------------------------------------------------------------------------
(* Further properties of the claim handler (checked under SpecMint).        *)

\* C15: an address gets at most one successful claim per calendar day: the
\* handler goes on to mint only for an address that has not claimed today, and
\* no address whose first claim was today has more than one claim on record.
C15_OneClaimPerDay ==
    /\ last.op = "claimToken" => ~hasClaimedToday(claims, Address, clock)
    /\ \A a \in DOMAIN claims :
            DayIndex(claims[a].firstClaim) = DayIndex(clock) => claims[a].claimCount <= 1

\* the counts of the minute buckets, by key
BucketCounts == [key \in DOMAIN globalMintTracker |-> globalMintTracker[key].count]

\* C16: claimToken is called only by a request that has passed the challenge
\* and body validation and has just found the global limit not reached;
\* recordClaim runs only in a request whose claimToken returned, and
\* recordGlobalMint only after its recordClaim; a request answered 400, 429 or
\* 500 changes neither the claims map nor the count of any tracked bucket.
C16_ClaimStepOrder ==
    [][/\ last'.op = "claimToken" =>
            /\ CurrentBucketCount < GLOBAL_TOKENS_PER_MINUTE
            /\ \E h \in Slots : handlers[h].pc = "init" /\ handlers'[h].pc = "claiming"
       /\ \A h \in Slots :
            (handlers'[h].pc = "init" /\ handlers[h].pc # "init") =>
                handlers[h].pc = "idle" /\ last'.op = "receive"
       /\ claims' # claims =>
            /\ last'.op = "recordClaim"
            /\ \E h \in Slots :
                /\ handlers[h].pc = "claiming"
                /\ handlers'[h].pc = "recording"
                /\ handlers'[h].sdkFailed => tokenServiceImpl = "mockFallback"
       /\ (\E key \in DOMAIN BucketCounts' :
                key \notin DOMAIN BucketCounts \/ BucketCounts'[key] # BucketCounts[key]) =>
            /\ last'.op = "respond" /\ last'.status = 200
            /\ \E h \in Slots : handlers[h].pc = "recording" /\ handlers'[h].pc = "idle"
       /\ (last'.op = "respond" /\ last'.status \in {400, 429, 500}) =>
            /\ claims' = claims
            /\ \A key \in DOMAIN BucketCounts' :
                    key \in DOMAIN BucketCounts /\ BucketCounts'[key] = BucketCounts[key]
      ]_vars

\* a request was turned away with 429 at a full bucket, nothing recorded for it
C16_Witness ==
    /\ last.op = "respond"
    /\ last.status = 429
    /\ CurrentBucketCount = GLOBAL_TOKENS_PER_MINUTE
    /\ mintsThisMinute = GLOBAL_TOKENS_PER_MINUTE

-----------------------------------------------------------------------------
(* Properties of the suspicious set, the statistics and the cleanup timer   *)
(* (checked under Spec).                                                    *)

\* C18: the suspicious set changes only by a heuristic denial adding the
\* request's IP, or by the cleanup sweep dropping an IP together with its
\* record; installing a block, lazy expiry and manual unblock leave it alone.
C18_SuspiciousIndependent ==
    [][suspiciousIPs' # suspiciousIPs =>
        \/ /\ last'.op = "checkRequest"
           /\ last'.ruleTriggered \in {"BOT_USER_AGENT", "SUSPICIOUS_HEADERS"}
           /\ suspiciousIPs' = suspiciousIPs \cup {last'.ip}
        \/ /\ last'.op = "cleanup"
           /\ suspiciousIPs' \subseteq suspiciousIPs
           /\ \A ip \in suspiciousIPs \ suspiciousIPs' :
                ip \in DOMAIN ipRequestTracker /\ ip \notin DOMAIN ipRequestTracker'
      ]_vars

\* what getStats reports agrees with the collections
StatsAgree ==
    LET stats == getStats(Svc, now) IN
    /\ {b.ip : b \in stats.activeBlockedIPs} = {ip \in DOMAIN ipRequestTracker : ActiveBlock(ip)}
    /\ \A b \in stats.activeBlockedIPs :
        LET remaining == Val(ipRequestTracker[b.ip].blockedUntil) - now IN
        /\ b.reason = ipRequestTracker[b.ip].blockReason
        /\ b.remainingTime >= 1
        /\ b.remainingTime * MS_PER_SECOND >= remaining
        /\ (b.remainingTime - 1) * MS_PER_SECOND < remaining
    /\ stats.suspiciousIPs = suspiciousIPs
    /\ stats.totalTrackedIPs = Cardinality(DOMAIN ipRequestTracker)
    /\ stats.activeBlocks = Cardinality(stats.activeBlockedIPs)
    /\ stats.activeBlocks = Cardinality({ip \in IPs : isIPBlocked(Svc, ip, now).ret})

C20_CleanupCancelable ==
    ENABLED (Next /\ (~ ENABLED Cleanup)')

-----------------------------------------------------------------------------
(* The sliding window and the block record (checked under Spec).            *)

\* the admitted requests of ip that fall in the closed interval [a, a + window]
AdmittedIn(ip, a) ==
    {i \in 1..Len(admitted[ip]) :
        a <= admitted[ip][i] /\ admitted[ip][i] <= a + TIME_WINDOW_MS}

\* C21: for every IP and every closed interval of one window's length, at most
\* MAX_REQUESTS_PER_WINDOW requests of that IP were admitted inside it, after
\* any sequence of requests, cleanup sweeps, block expiries and unblockIP calls.
C21_SlidingWindowSafety ==
    \A ip \in IPs : \A a \in 0..now :
        Cardinality(AdmittedIn(ip, a)) <= MAX_REQUESTS_PER_WINDOW

\* a request was admitted as the last one the window had room for, the
\* admissions of the window being spread over more than one instant
C21_Witness ==
    /\ last.op = "checkRequest" /\ ~last.blocked
    /\ Len(admitted[last.ip]) = MAX_REQUESTS_PER_WINDOW
    /\ admitted[last.ip][1] < now
    /\ Cardinality(AdmittedIn(last.ip, now - TIME_WINDOW_MS)) = MAX_REQUESTS_PER_WINDOW

\* the recorded timestamps of ip no older than one window at time t, counted
\* by position
CountInWindow(ip, t) ==
    IF ip \notin DOMAIN ipRequestTracker THEN 0
    ELSE Cardinality({i \in 1..Len(ipRequestTracker[ip].requests) :
                        t - ipRequestTracker[ip].requests[i] <= TIME_WINDOW_MS})

\* C22: checkRateLimit(ip, now) reports exceeded exactly when the number of
\* the IP's recorded timestamps t with now - t <= window is at least
\* MAX_REQUESTS_PER_WINDOW: a timestamp exactly one window old counts, one
\* older than the window does not, retained or not.  So a request denied with
\* RATE_LIMIT found that many, and an admitted one found fewer.
C22_ThresholdComparator ==
    /\ \A ip \in IPs \cup {UnseenIP} :
        LET r == checkRateLimit(Svc, ip, now) IN
        /\ r.requestCount = CountInWindow(ip, now)
        /\ r.exceeded = (CountInWindow(ip, now) >= MAX_REQUESTS_PER_WINDOW)
    /\ last.op = "checkRequest" /\ last.ruleTriggered = "RATE_LIMIT" =>
            CountInWindow(last.ip, now) >= MAX_REQUESTS_PER_WINDOW
    /\ last.op = "checkRequest" /\ ~last.blocked =>
            CountInWindow(last.ip, now) - 1 < MAX_REQUESTS_PER_WINDOW

\* a request was denied with RATE_LIMIT on the strength of a timestamp exactly
\* one window old
C22_Witness ==
    /\ last.op = "checkRequest" /\ last.ruleTriggered = "RATE_LIMIT"
    /\ CountInWindow(last.ip, now) = MAX_REQUESTS_PER_WINDOW
    /\ \E i \in 1..Len(ipRequestTracker[last.ip].requests) :
            now - ipRequestTracker[last.ip].requests[i] = TIME_WINDOW_MS

\* C23: every tracked record with blocked = true has blockedUntil set, and
\* blockedUntil >= blockedAt.
C23_BlockRecordInvariant ==
    \A ip \in DOMAIN ipRequestTracker :
        ipRequestTracker[ip].blocked =>
            /\ ipRequestTracker[ip].blockedUntil # None
            /\ ipRequestTracker[ip].blockedAt # None
            /\ Val(ipRequestTracker[ip].blockedUntil) >= Val(ipRequestTracker[ip].blockedAt)

\* a rate-limit denial has just installed a block, not the first of the run
C23_Witness ==
    /\ last.op = "checkRequest" /\ last.ruleTriggered = "RATE_LIMIT"
    /\ ipRequestTracker[last.ip].blocked
    /\ Val(ipRequestTracker[last.ip].blockedAt) = now
    /\ Val(ipRequestTracker[last.ip].blockedUntil) = now + BLOCK_DURATION_MS
    /\ now > 0

\* the request timestamps tracker T keeps for ip (none when ip has no record)
Requests(T, ip) ==
    IF ip \in DOMAIN T THEN T[ip].requests ELSE <<>>

\* C24: a checkRequest that returns IP_BLOCKED changes nothing: the record of
\* the IP (blockedUntil, blockedAt, blockReason, timestamps), the blocked set
\* and the suspicious set are as before, so the block is never extended.
C24_BlockedRequestChangesNothing ==
    [][last'.op = "checkRequest" /\ last'.ruleTriggered = "IP_BLOCKED" =>
        /\ last'.ip \in DOMAIN ipRequestTracker
        /\ UNCHANGED <<ipRequestTracker, suspiciousIPs, blockedIPs>>
      ]_vars

\* a request was denied with IP_BLOCKED some time into the block
C24_Witness ==
    /\ last.op = "checkRequest" /\ last.ruleTriggered = "IP_BLOCKED"
    /\ ActiveBlock(last.ip)
    /\ Val(ipRequestTracker[last.ip].blockedAt) < now
    /\ Len(Requests(ipRequestTracker, last.ip)) > 0

\* C25: an admitted request appends exactly one timestamp, now, to the IP's
\* list (behind the timestamps the list keeps); a denied request, whatever
\* the rule, leaves the list as it was.
C25_OnlyAdmissionsRecorded ==
    [][last'.op = "checkRequest" =>
        IF last'.blocked
        THEN Requests(ipRequestTracker', last'.ip) = Requests(ipRequestTracker, last'.ip)
        ELSE LET new == Requests(ipRequestTracker', last'.ip)
                 old == Requests(ipRequestTracker, last'.ip)
             IN  /\ Len(new) >= 1
                 /\ new[Len(new)] = now
                 /\ Len(new) <= Len(old) + 1
                 /\ SubSeq(new, 1, Len(new) - 1)
                        = SubSeq(old, Len(old) - Len(new) + 2, Len(old))
      ]_vars

\* a heuristic denial of an IP with recorded requests, which stay as they are
C25_Witness ==
    /\ last.op = "checkRequest"
    /\ last.ruleTriggered \in {"BOT_USER_AGENT", "SUSPICIOUS_HEADERS"}
    /\ Len(Requests(ipRequestTracker, last.ip)) > 0
    /\ ~ipRequestTracker[last.ip].blocked

\* C26: right after a request from an IP is recorded at time t, every
\* timestamp kept for that IP is newer than t - 2 x window and the list is in
\* arrival order; right after a cleanup sweep at time t every kept timestamp
\* of every IP is newer than t - 10 x window.
C26_TimestampRetention ==
    /\ last.op = "checkRequest" /\ ~last.blocked =>
        LET rs == Requests(ipRequestTracker, last.ip) IN
        /\ \A i \in 1..Len(rs) : rs[i] > now - RECORD_BUFFER_FACTOR * TIME_WINDOW_MS
        /\ \A i \in 1..Len(rs), j \in 1..Len(rs) : i < j => rs[i] <= rs[j]
    /\ last.op = "cleanup" =>
        \A ip \in DOMAIN ipRequestTracker :
            \A i \in 1..Len(ipRequestTracker[ip].requests) :
                ipRequestTracker[ip].requests[i] > now - CLEANUP_KEEP_FACTOR * TIME_WINDOW_MS

\* a sweep has emptied the timestamp list of a record it had to keep
C26_Witness ==
    /\ last.op = "cleanup"
    /\ now >= CLEANUP_KEEP_FACTOR * TIME_WINDOW_MS
    /\ \E ip \in DOMAIN ipRequestTracker :
        ipRequestTracker[ip].blocked /\ ipRequestTracker[ip].requests = <<>>

\* C27: an IP is in the blockedIPs set exactly when it has a tracked record
\* with blocked = true.
C27_BlockedSetConsistency ==
    blockedIPs = {ip \in DOMAIN ipRequestTracker : ipRequestTracker[ip].blocked}

\* a request found the IP's block run out: the record is unblocked (blockedAt
\* still tells of the block) and the IP has left the set
C27_Witness ==
    /\ last.op = "checkRequest"
    /\ last.ip \in DOMAIN ipRequestTracker
    /\ ~ipRequestTracker[last.ip].blocked
    /\ ipRequestTracker[last.ip].blockedAt # None
    /\ last.ip \notin blockedIPs

\* C28: getBlockedIPsList(), and the firewall configuration made from it, name
\* exactly the IPs that are blocked now: a block was installed and its
\* blockedUntil is still ahead.
C28_BlockedListIsCurrent ==
    /\ getBlockedIPsList(Svc) = {ip \in DOMAIN ipRequestTracker : ActiveBlock(ip)}
    /\ LET config == generateVercelFirewallConfig(Svc) IN
       {route.value : route \in (IF config = None THEN {} ELSE Val(config))}
            = {ip \in DOMAIN ipRequestTracker : ActiveBlock(ip)}

\* nothing arrives from any IP any more
Quiet == last.op # "checkRequest"

\* ip has no active block and no timestamp within 10 x window
Aged(ip) ==
    /\ ~ActiveBlock(ip)
    /\ \A i \in 1..Len(Requests(ipRequestTracker, ip)) :
        Requests(ipRequestTracker, ip)[i] <= now - CLEANUP_KEEP_FACTOR * TIME_WINDOW_MS

\* the service holds no state for ip
Gone(ip) ==
    /\ ip \notin DOMAIN ipRequestTracker
    /\ ip \notin blockedIPs
    /\ ip \notin suspiciousIPs

\* C29: if an IP stops sending requests, then once its block has run out and
\* its timestamps are older than 10 x window the repeated cleanup sweeps
\* eventually leave no state for it in the tracker, the blocked set or the
\* suspicious set, and it stays that way.
C29_CleanupBoundsMemory ==
    \A ip \in IPs : <>[](Quiet /\ Aged(ip)) => <>[]Gone(ip)

-----------------------------------------------------------------------------
(* The purge of the global mint tracker (checked under SpecMint).           *)

\* what the tracker is right after each of the three operations that purge it
AfterPurgingCall ==
    {isGlobalRateLimitExceeded(globalMintTracker, clock).M,
     recordGlobalMint(globalMintTracker, clock),
     getGlobalMintStats(globalMintTracker, clock).M}

\* tracker T at time t: no bucket created more than CLEANUP_AGE_MINUTES
\* minutes ago, and no more than one bucket per minute of that span
Purged(T, t) ==
    /\ \A key \in DOMAIN T : t - T[key].timestamp <= CLEANUP_AGE_MINUTES * TICKS_PER_MINUTE
    /\ Cardinality(DOMAIN T) <= CLEANUP_AGE_MINUTES + 1

\* C30: right after any of isGlobalRateLimitExceeded, recordGlobalMint or
\* getGlobalMintStats the tracker holds no bucket created more than 2 minutes
\* ago and at most 3 buckets, and the bucket of the current minute, if there
\* was one, is still there with a count no smaller than before.
C30_MintBucketPurge ==
    /\ \A T \in AfterPurgingCall :
        /\ Purged(T, clock)
        /\ getCurrentMinuteKey(clock) \in DOMAIN globalMintTracker =>
            /\ getCurrentMinuteKey(clock) \in DOMAIN T
            /\ T[getCurrentMinuteKey(clock)].count
                    >= globalMintTracker[getCurrentMinuteKey(clock)].count
    /\ (last.op = "claimToken" \/ (last.op = "respond" /\ last.status \in {200, 429})) =>
            Purged(globalMintTracker, clock)

\* a mint was recorded while the tracker held three buckets, the oldest
\* created exactly two minutes before
C30_Witness ==
    /\ last.op = "respond" /\ last.status = 200
    /\ Cardinality(DOMAIN globalMintTracker) = CLEANUP_AGE_MINUTES + 1
    /\ \E key \in DOMAIN globalMintTracker :
        clock - globalMintTracker[key].timestamp = CLEANUP_AGE_MINUTES * TICKS_PER_MINUTE

-----------------------------------------------------------------------------
(* The minute key (checked under SpecKey) and the count of a bucket         *)
(* (checked under SpecMint).                                                *)

\* C31: getCurrentMinuteKey gives two instants the same key exactly when they
\* lie in the same calendar minute, across the turn of the hour, the day, the
\* month and the year, so the count read in a minute is the number of mints
\* recorded in that very minute.
C31_MinuteKey ==
    /\ \A t \in KeyInstants :
        (getCurrentMinuteKey(t) = getCurrentMinuteKey(clock))
            <=> (MinuteIndex(t) = MinuteIndex(clock))
    /\ getGlobalMintStats(globalMintTracker, clock).tokensThisMinute = mintsThisMinute

\* the year has turned with the bucket of the old year's last minute still tracked
C31_Witness ==
    /\ last.op = "tick"
    /\ getFullYear(clock) = EpochYear + 1
    /\ getMonth(clock) = 0 /\ getDate(clock) = 1 /\ getHours(clock) = 0 /\ getMinutes(clock) = 0
    /\ mintsThisMinute = 0
    /\ \E key \in DOMAIN globalMintTracker :
        key # getCurrentMinuteKey(clock) /\ globalMintTracker[key].count > 0

\* C32: within one minute the count of the current bucket never goes down;
\* each recordGlobalMint raises it by exactly 1, from 0 if the bucket is absent
\* and also when it is at or above the limit; so the limit, once reported
\* exceeded, stays exceeded until the minute changes; and getGlobalMintStats
\* reports isLimitExceeded = (tokensThisMinute >= maxTokensPerMinute).
C32_BucketCountMonotone ==
    [][/\ MinuteIndex(clock') = MinuteIndex(clock) =>
            /\ CurrentBucketCount' >= CurrentBucketCount
            /\ isGlobalRateLimitExceeded(globalMintTracker, clock).ret =>
                    isGlobalRateLimitExceeded(globalMintTracker', clock').ret
       /\ (last'.op = "respond" /\ last'.status = 200) =>
            CurrentBucketCount' = CurrentBucketCount + 1
       /\ LET stats == getGlobalMintStats(globalMintTracker', clock') IN
            /\ stats.isLimitExceeded = (stats.tokensThisMinute >= stats.maxTokensPerMinute)
            /\ stats.tokensThisMinute = CurrentBucketCount'
      ]_vars

\* a mint was recorded on a bucket that was already at the limit
C32_Witness ==
    /\ last.op = "respond" /\ last.status = 200
    /\ CurrentBucketCount = GLOBAL_TOKENS_PER_MINUTE + 1

-----------------------------------------------------------------------------
(* The claim records (checked under SpecClaims).                            *)

\* the recordClaim calls made so far for an address, in whatever case
CallsFor(sparkAddress) ==
    {i \in 1..Len(claimLog) : toLowerCase(claimLog[i][1]) = toLowerCase(sparkAddress)}

Least(S) == CHOOSE i \in S : \A j \in S : i <= j
Greatest(S) == CHOOSE i \in S : \A j \in S : i >= j

\* C39: addresses are keyed without regard to case: after any sequence of
\* recordClaim calls, claimCount is the number of calls made for the address in
\* any spelling, firstClaim is the time of the first of them, lastClaim the time
\* of the latest, getTotalClaims() is the number of distinct addresses, and
\* hasClaimedToday is true for every spelling of an address recorded earlier the
\* same calendar day and false for an address never recorded.
C39_ClaimRecords ==
    /\ \A a \in ClaimAddresses \cup {NeverRecorded} :
        LET stats == getClaimStats(claims, a, clock) IN
        IF CallsFor(a) = {}
        THEN /\ ~hasClaimedToday(claims, a, clock)
             /\ stats.claimCount = 0
             /\ stats.firstClaim = None
        ELSE /\ stats.claimCount = Cardinality(CallsFor(a))
             /\ stats.firstClaim = Some(claimLog[Least(CallsFor(a))][2])
             /\ stats.lastClaim = Some(claimLog[Greatest(CallsFor(a))][2])
             /\ (\E i \in CallsFor(a) : DayIndex(claimLog[i][2]) = DayIndex(clock))
                    => hasClaimedToday(claims, a, clock)
    /\ getTotalClaims(claims) =
            Cardinality({toLowerCase(claimLog[i][1]) : i \in 1..Len(claimLog)})

\* one address was recorded three times in three spellings, at different
\* instants of one day, and is asked about in a fourth way
C39_Witness ==
    /\ last.op = "recordClaim"
    /\ Len(claimLog) = 3
    /\ \A i, j \in 1..3 : i # j =>
            /\ claimLog[i][1] # claimLog[j][1]
            /\ toLowerCase(claimLog[i][1]) = toLowerCase(claimLog[j][1])
    /\ claimLog[1][2] < claimLog[3][2]
    /\ DayIndex(claimLog[1][2]) = DayIndex(clock)
    /\ getTotalClaims(claims) = 1
    /\ hasClaimedToday(claims, "Sp1QxY", clock)

-----------------------------------------------------------------------------
(* Isolation between IP addresses (checked under Spec): the service holding *)
(* the state of a second IP besides the one the requests come from.         *)

OtherIP == "192.0.2.44"

\* the service right after construction
ServiceAsConstructed == [ipRequestTracker |-> <<>>, suspiciousIPs |-> {}, blockedIPs |-> {}]

\* what the service holds about one IP
View(S, ip) ==
    [record |-> Get(S.ipRequestTracker, ip),
     suspicious |-> ip \in S.suspiciousIPs,
     blocked |-> ip \in S.blockedIPs]

\* what the service can hold about an IP at time t: nothing; only the flag set
\* by a rejected request; one admitted request; a full window of admitted
\* requests; a block still running; a block whose time is up
OtherStates(t) ==
    LET full == [i \in 1..MAX_REQUESTS_PER_WINDOW |-> t]
        blockedRecord(until) ==
            [requests |-> full, blocked |-> TRUE, blockedUntil |-> Some(until),
             blockReason |-> Some("RATE_LIMIT_EXCEEDED"),
             blockedAt |-> Some(until - BLOCK_DURATION_MS)]
    IN  {[record |-> None, suspicious |-> FALSE, blocked |-> FALSE],
         [record |-> None, suspicious |-> TRUE, blocked |-> FALSE],
         [record |-> Some([NewIpData EXCEPT !.requests = <<t>>]),
          suspicious |-> FALSE, blocked |-> FALSE],
         [record |-> Some([NewIpData EXCEPT !.requests = full]),
          suspicious |-> TRUE, blocked |-> FALSE],
         [record |-> Some(blockedRecord(t + 1)), suspicious |-> FALSE, blocked |-> TRUE],
         [record |-> Some(blockedRecord(t)), suspicious |-> FALSE, blocked |-> TRUE]}

\* the service in state S holding o about the other IP as well
With(S, o) ==
    [ipRequestTracker |-> IF o.record = None THEN S.ipRequestTracker
                          ELSE MapSet(S.ipRequestTracker, OtherIP, Val(o.record)),
     suspiciousIPs |-> IF o.suspicious THEN S.suspiciousIPs \cup {OtherIP}
                       ELSE S.suspiciousIPs,
     blockedIPs |-> IF o.blocked THEN S.blockedIPs \cup {OtherIP} ELSE S.blockedIPs]

\* one request of each kind the classifier tells apart
OneOfEachKind ==
    {CHOOSE name \in RequestNames : Classified[name] = c :
        c \in {Classified[name] : name \in RequestNames}}

\* the states checkRequest, isIPBlocked and unblockIP for clientIP leave behind
AfterCallFor(S, clientIP, t) ==
    {checkRequest(S, clientIP, req, t).S : req \in OneOfEachKind}
    \cup {isIPBlocked(S, clientIP, t).S, unblockIP(S, clientIP)}

\* C33: checkRequest, isIPBlocked and unblockIP for one IP change neither the
\* record nor the blocked-set membership nor the suspicious-set membership of
\* another IP, and the decision for a request from the other IP (and what it
\* leaves in that IP's record) is what it would be had the service never
\* processed a request from the first.
C33_PerIPIsolation ==
    \A A \in IPs : \A o \in OtherStates(now) :
        /\ View(With(Svc, o), OtherIP) = o
        /\ View(With(Svc, o), A) = View(Svc, A)
        /\ \A S1 \in AfterCallFor(With(Svc, o), A, now) \cup {With(Svc, o)} :
            /\ View(S1, OtherIP) = o
            /\ \A req \in OneOfEachKind :
                LET d == checkRequest(S1, OtherIP, req, now)
                    alone == checkRequest(With(ServiceAsConstructed, o), OtherIP, req, now)
                IN  /\ d.blocked = alone.blocked
                    /\ d.ruleTriggered = alone.ruleTriggered
                    /\ d.retryAfter = alone.retryAfter
                    /\ View(d.S, OtherIP) = View(alone.S, OtherIP)
                    /\ View(d.S, A) = View(S1, A)

\* the first IP has just been blocked for exceeding the rate limit and is
\* flagged as well, while a well-formed request from the other IP is admitted
C33_Witness ==
    /\ last.op = "checkRequest" /\ last.ruleTriggered = "RATE_LIMIT"
    /\ last.ip \in blockedIPs \cap suspiciousIPs
    /\ \E o \in OtherStates(now) :
        /\ o.suspicious
        /\ \E req \in OneOfEachKind :
            ~checkRequest(With(Svc, o), OtherIP, req, now).blocked
        /\ View(unblockIP(With(Svc, o), last.ip), OtherIP) = o

-----------------------------------------------------------------------------
(* The TokenService: transaction queue, retries, blocklist, initialization  *)
(* (checked under SpecToken; what happens in the end under SpecTokenLive).  *)

\* the call claimToken queued in this step, if one did
QueuedNow(calls, calls2) ==
    {c \in Calls : calls[c].pc \in {"idle", "initializing"}
                   /\ calls2[c].pc \in {"queued"} \cup Running}

\* the queue once this step's queueTransaction, if there was one, has pushed
AfterPush(queue, calls, calls2) ==
    IF QueuedNow(calls, calls2) = {} THEN queue
    ELSE Append(queue, CHOOSE c \in QueuedNow(calls, calls2) : TRUE)

\* C34: at most one queued transaction function is executing at any time; a
\* transaction starts only when isProcessingTransaction is false and none is
\* executing, and the flag is set for as long as it executes, under every
\* interleaving of claimToken calls and re-poll timers.
C34_QueueMutualExclusion ==
    [][/\ Cardinality(Executing(claimCalls')) <= 1
       /\ Executing(claimCalls') # {} => tokenService'.isProcessingTransaction
       /\ Executing(claimCalls') \ Executing(claimCalls) # {} =>
            /\ ~tokenService.isProcessingTransaction
            /\ Executing(claimCalls) = {}
      ]_vars

\* claimToken was called while a transaction was executing: its transaction is
\* queued, and a re-poll timer is pending as well
C34_Witness ==
    /\ last.op = "claimToken" /\ last.next = 0
    /\ claimCalls[last.k].pc = "queued"
    /\ Cardinality(Executing(claimCalls)) = 1
    /\ timers > 0

\* C35: queued transactions are started in the order they were enqueued, each
\* exactly once (a queued call leaves the queue only by starting, and a started
\* one only ends); and, the SDK calls settling, every enqueued transaction's
\* promise is settled in the end, whether or not an earlier one was rejected
\* (no call stays queued or executing for ever).
C35_QueueFifoAndProgress ==
    /\ [][LET q1 == AfterPush(tokenService.transactionQueue, claimCalls, claimCalls')
              startedNow == Executing(claimCalls') \ Executing(claimCalls)
          IN  /\ Cardinality(startedNow) <= 1
              /\ startedNow # {} =>
                    /\ q1 # <<>>
                    /\ startedNow = {Head(q1)}
                    /\ tokenService'.transactionQueue = Tail(q1)
              /\ startedNow = {} => tokenService'.transactionQueue = q1
              /\ \A c \in Calls :
                    /\ (claimCalls[c].pc = "queued" /\ claimCalls'[c].pc # "queued")
                            => c \in startedNow
                    /\ claimCalls[c].pc \in Running
                            => claimCalls'[c].pc \in Running \cup {"idle"}
        ]_vars
    /\ [](\A c \in Calls :
            (claimCalls[c].pc = "queued") <=>
                (\E i \in 1..Len(tokenService.transactionQueue) :
                    tokenService.transactionQueue[i] = c))
    /\ \A c \in Calls : []<>(claimCalls[c].pc \notin {"queued"} \cup Running)

\* a transaction has just been rejected while two others wait in the queue
C35_Witness ==
    /\ last.op \in {"mintTokens", "transferTokens"} /\ last.status = 500
    /\ Len(tokenService.transactionQueue) = 2
    /\ ~tokenService.isProcessingTransaction
    /\ timers > 0

\* C36: executeTokenClaim runs at most claimMaxRetries + 1 = 4 times for one
\* claim and in each run the mint and the transfer are each tried at most
\* transactionMaxRetries + 1 = 3 times; a call is retried only after an error classified
\* as a transaction conflict, any other error ends the claim at once, and the
\* claim ends in every case (no call stays executing for ever).
C36_BoundedRetry ==
    /\ [](\A c \in Calls :
            /\ history.tries[c].executions <= claimMaxRetries + 1
            /\ history.tries[c].calls <= transactionMaxRetries + 1)
    /\ [](last.ruleTriggered \in ErrorMessages =>
            IF ConflictError[last.ruleTriggered]
            THEN last.status = 0 \/ claimCalls[last.k].pc = "idle"
            ELSE last.status = 500 /\ claimCalls[last.k].pc = "idle")
    /\ \A c \in Calls : []<>(claimCalls[c].pc \notin Running)

\* the last transferTokens call of the last run of executeTokenClaim is in flight
C36_Witness ==
    \E c \in Calls :
        /\ claimCalls[c].pc = "transfer"
        /\ claimCalls[c].retryCount = claimMaxRetries
        /\ claimCalls[c].attempt = transactionMaxRetries
        /\ history.tries[c].executions = claimMaxRetries + 1
        /\ history.tries[c].calls = transactionMaxRetries + 1
        /\ ConflictError[claimCalls[c].lastError]

\* the call for which the last step made an SDK call, 0 if it made none
SdkCallMadeFor ==
    IF last.op \in {"mintTokens", "transferTokens"} /\ last.status = 0 THEN last.k
    ELSE IF last.op \in {"claimToken", "processQueue"} THEN last.next
    ELSE 0

\* C37: while an address is in blockedAddresses, claimToken for it throws with
\* nothing enqueued, and no mintTokens or transferTokens call is made for it;
\* removeBlockedAddress returns true iff the address was present, and after it
\* claimToken for the address goes through.
C37_BlocklistedNeverReceive ==
    /\ SdkCallMadeFor # 0 =>
            ~isAddressBlocked(tokenService, claimCalls[SdkCallMadeFor].sparkAddress)
    /\ \A a \in TokenAddresses : \A c \in Calls :
        (claimCalls[c].pc = "idle" /\ tokenService.isInitialized) =>
            LET Q == [Tok EXCEPT !.claimCalls[c].sparkAddress = a]
                R == [Q EXCEPT !.tokenService = removeBlockedAddress(tokenService, a).TS]
            IN  /\ isAddressBlocked(tokenService, a) =>
                        /\ claimToken(Q, c).tokenService = tokenService
                        /\ Executing(claimToken(Q, c).claimCalls) = Executing(claimCalls)
                /\ removeBlockedAddress(tokenService, a).ret = isAddressBlocked(tokenService, a)
                /\ claimToken(R, c).claimCalls[c].pc \in {"queued"} \cup Running

\* C38: tokenService.initialize() is never in flight twice, whatever the number
\* of requests that arrive before it completes; no transaction runs before an
\* initialization has succeeded; and isInitialized is set by a success only.
C38_SingleInitialization ==
    /\ Cardinality({c \in Calls : claimCalls[c].pc = "initializing"}) <= 1
    /\ Executing(claimCalls) # {} => isInitialized /\ tokenService.isInitialized
    /\ isInitialized => tokenService.isInitialized

====
